---- MODULE Spec2Model ----
(***************************************************************************)
(* Model of the syncback engine of Argon (src/core/processor/write.rs):   *)
(* apply_addition, apply_update and apply_removal acting on the Tree, the *)
(* virtual file system and the project document, together with the        *)
(* sidecar writer of src/middleware/data.rs.                               *)
(*                                                                         *)
(* A name is a pair <<base, tag>>: tag 0 is the plain name, a tag > 0 is   *)
(* the disambiguating suffix appended on a path collision.  A path is a    *)
(* sequence of components <<base, tag, ext>>; ext "" is a bare name (a     *)
(* directory), "luau" a script file, "data.json" a sidecar.                *)
(***************************************************************************)
EXTENDS Integers, Sequences, FiniteSets, TLC

VARIABLES disk, tree, metas, project, uuid, config, run, ops, aborted, last, prev,
          origin, repeated, resolution, loaded, mutexes, threads, attempt, updater

vars == <<disk, tree, metas, project, uuid, config, run, ops, aborted, last, prev,
          origin, repeated, resolution, loaded, mutexes, threads, attempt, updater>>

\* The state of the syncback engine, of the resolver of property values and
\* of the mutexes taken with lock!.
engine == <<disk, tree, metas, project, uuid, config, run, ops, aborted, last, prev,
            origin, repeated>>
resolver == <<resolution, loaded>>
locking == <<mutexes, threads, attempt>>

\* ------------------------------------------------------------------ bounds

\* Number of apply_* calls made by the reconciler in one run.  A "wide" run
\* draws its calls from the full menus, a "deep" run makes one call more,
\* from short menus: the inline nodes of the project document and a leaf
\* that is promoted to a folder.
MaxOps == 2
Runs == {"wide", "deep"}
Limit == IF run = "deep" THEN MaxOps + 1 ELSE MaxOps

\* ------------------------------------------------------------- value space

NoName == <<>>
NoPath == <<>>
NoClass == ""

N(b) == <<b, 0>>

\* Names with characters that are not allowed in a file name, and the
\* file-system safe form each is rewritten to.
UnsafeBases == {"U?"}
SafeBase(b) == IF b = "U?" THEN "U" ELSE b

\* Syncback filter rules (ignoreNames, ignoreClasses, ignoreGlobs).
IgnoredNames == {"X"}
IgnoredClasses == {"Camera"}
IgnoredPathBases == {"P"}
\* A glob on one file: the main file inside the folder F.
IgnoredFiles == {<< <<"F", 0, "">>, <<"", 0, "src.luau">> >>}

matches_name(name) == name # NoName /\ name[1] \in IgnoredNames
matches_class(class) == class \in IgnoredClasses
matches_path(path) ==
    /\ path # NoPath
    /\ \/ path[Len(path)][1] \in IgnoredPathBases
       \/ Len(path) > 1 /\ <<path[Len(path) - 1], path[Len(path)]>> \in IgnoredFiles

\* ------------------------------------------------------------------ paths

Comp(name, ext) == <<name[1], name[2], ext>>
NameOf(comp) == <<comp[1], comp[2]>>
Last(p) == p[Len(p)]
Front(p) == SubSeq(p, 1, Len(p) - 1)
Join(p, comp) == Append(p, comp)
WithFileName(p, comp) == Append(Front(p), comp)
IsPrefix(p, q) == Len(p) <= Len(q) /\ SubSeq(q, 1, Len(p)) = p
Rebase(q, from, to) == to \o SubSeq(q, Len(from) + 1, Len(q))

SrcChild == <<"", 0, "src.luau">>
DataChild == <<"", 0, "data.json">>

\* Sync rules: a file pattern "*.<ext>" and a child pattern inside a folder.
ScriptRule == [ext |-> "luau", child |-> SrcChild]
DataRule == [ext |-> "data.json", child |-> DataChild]

Locate(rule, path, name, is_dir) ==
    IF is_dir THEN Join(path, rule.child)
    ELSE WithFileName(path, Comp(name, rule.ext))

RuleMatches(rule, path) == Last(path)[3] = rule.ext /\ Last(path)[1] # ""
RuleMatchesChild(rule, path) == Last(path) = rule.child

\* Middleware::from_class: script classes have a file format of their own.
HasMiddleware(class) == class = "ModuleScript"

\* ------------------------------------------------------------------- disk

DirEntry == [kind |-> "dir", className |-> NoClass, props |-> {},
             keepUnknowns |-> FALSE, originalName |-> NoName]
FileEntry(props) == [kind |-> "file", className |-> NoClass, props |-> props,
                     keepUnknowns |-> FALSE, originalName |-> NoName]
ProjectEntry == [kind |-> "project", className |-> NoClass, props |-> {},
                 keepUnknowns |-> FALSE, originalName |-> NoName]

Exists(d, p) == p \in DOMAIN d
IsDir(d, p) == p \in DOMAIN d /\ d[p].kind = "dir"
IsFile(d, p) == p \in DOMAIN d /\ d[p].kind # "dir"

VfsWrite(d, p, entry) == [q \in (DOMAIN d) \cup {p} |-> IF q = p THEN entry ELSE d[q]]
VfsWriteDir(d, p) == IF Exists(d, p) THEN d ELSE VfsWrite(d, p, DirEntry)
VfsRemove(d, p) == [q \in {q \in DOMAIN d : ~IsPrefix(p, q)} |-> d[q]]
VfsCanRename(d, from, to) ==
    /\ Exists(d, from)
    /\ (Len(to) > 1 => IsDir(d, Front(to)))
VfsRename(d, from, to) ==
    LET moved == {q \in DOMAIN d : IsPrefix(from, q)}
        kept == {q \in DOMAIN d : ~IsPrefix(from, q) /\ ~IsPrefix(to, q)}
        dest == {Rebase(q, from, to) : q \in moved}
    IN [q \in kept \cup dest |->
           IF q \in dest
           THEN d[CHOOSE o \in moved : Rebase(o, from, to) = q]
           ELSE d[q]]

\* ----------------------------------------------------------- Source, Meta

NoNode == [class |-> NoClass, props |-> {}, path |-> NoPath, keepUnknowns |-> FALSE]

SourceNone == [kind |-> "None", path |-> NoPath, relevant |-> {}, name |-> NoName,
               file |-> NoPath, node |-> NoNode, nodePath |-> <<>>]
SourceFile(path) == [SourceNone EXCEPT !.kind = "Path", !.path = path,
                                       !.relevant = {<<"File", path>>}]
SourceDirectory(path) == [SourceNone EXCEPT !.kind = "Path", !.path = path,
                                            !.relevant = {<<"Folder", path>>}]
SourceChildFile(folder, file) ==
    [SourceNone EXCEPT !.kind = "Path", !.path = folder,
                       !.relevant = {<<"Folder", folder>>, <<"File", file>>}]
SourceProject(name, file, node, nodePath) ==
    [kind |-> "Project", path |-> NoPath, relevant |-> {<<"Project", file>>},
     name |-> name, file |-> file, node |-> node, nodePath |-> nodePath]

EntriesOf(source, type) == {e \in source.relevant : e[1] = type}
HasEntry(source, type) == EntriesOf(source, type) # {}
GetEntry(source, type) == (CHOOSE e \in EntriesOf(source, type) : TRUE)[2]
AddData(source, path) == [source EXCEPT !.relevant = @ \cup {<<"Data", path>>}]
AddFile(source, path) == [source EXCEPT !.relevant = @ \cup {<<"File", path>>}]
\* Source::set_data(Option<path>): drops the Data entry, then adds the new one.
SetData(source, path) ==
    LET rest == {e \in source.relevant : e[1] # "Data"}
    IN [source EXCEPT !.relevant =
           IF path = NoPath THEN rest ELSE rest \cup {<<"Data", path>>}]

MetaNew == [source |-> SourceNone, keepUnknowns |-> FALSE, originalName |-> NoName]

\* ------------------------------------------------- helpers::syncback

validate_properties(props) == props
\* serialize_properties: every property value in its loose JSON form.
Json(prop) == "json:" \o prop
serialize_properties(class, props) == {Json(prop) : prop \in props}

\* verify_name: an empty name is refused; a name that is not a legal file
\* name is rewritten to its safe form (when renaming is enabled) and the
\* true name is remembered in meta.original_name.
verify_name(name, meta, cfg) ==
    IF name = NoName \/ name[1] = "" THEN [ok |-> FALSE, name |-> name, meta |-> meta]
    ELSE IF name[1] \in UnsafeBases
         THEN IF cfg.rename_instances
              THEN [ok |-> TRUE, name |-> <<SafeBase(name[1]), name[2]>>,
                    meta |-> [meta EXCEPT !.originalName = name]]
              ELSE [ok |-> FALSE, name |-> name, meta |-> meta]
         ELSE [ok |-> TRUE, name |-> name, meta |-> [meta EXCEPT !.originalName = NoName]]

\* verify_path: a free path is accepted as it is; an occupied one is either
\* refused or given a fresh disambiguating suffix, which the name follows.
verify_path(path, name, meta, d, u, cfg) ==
    IF ~Exists(d, path)
    THEN [ok |-> TRUE, path |-> path, name |-> name, meta |-> meta, uuid |-> u]
    ELSE IF cfg.rename_instances
         THEN [ok |-> TRUE,
               path |-> WithFileName(path, <<Last(path)[1], u, Last(path)[3]>>),
               name |-> <<name[1], u>>,
               meta |-> [meta EXCEPT !.originalName =
                            IF @ = NoName THEN name ELSE @],
               uuid |-> u + 1]
         ELSE [ok |-> FALSE, path |-> path, name |-> name, meta |-> meta, uuid |-> u]

\* rename_path: the old name is substituted by the new one in the file name.
rename_path(path, old, new) ==
    IF NameOf(Last(path)) = old
    THEN WithFileName(path, Comp(new, Last(path)[3]))
    ELSE path

\* ------------------------------------------------- middleware::data

\* A sidecar as WritableData serializes it: it has no attributes and no tags.
DataEntry(className, props, keepUnknowns, originalName) ==
    [kind |-> "data", className |-> className, props |-> props,
     attributes |-> {}, tags |-> {},
     keepUnknowns |-> keepUnknowns, originalName |-> originalName]

\* A sidecar as Data reads it, and a sidecar file without content.
Data(className, props, attributes, tags, keepUnknowns, originalName) ==
    [DataEntry(className, props, keepUnknowns, originalName)
        EXCEPT !.attributes = attributes, !.tags = tags]
EmptyData == [DataEntry(NoClass, {}, FALSE, NoName) EXCEPT !.kind = "empty"]

DataIsDefault(entry) ==
    /\ entry.className = NoClass
    /\ entry.props = {}
    /\ ~entry.keepUnknowns
    /\ entry.originalName = NoName

\* write_data that leaves a sidecar already on disk when the data is default.
write_data_StaleKept(has_file, class, props, path, meta, d) ==
    LET class_name == IF ~has_file /\ class # "Folder" THEN class ELSE NoClass
        data == DataEntry(class_name, props, meta.keepUnknowns, meta.originalName)
    IN IF DataIsDefault(data)
       THEN [disk |-> d, path |-> NoPath]
       ELSE [disk |-> VfsWrite(d, path, data), path |-> path]

\* write_data: returns the new disk and the data path (NoPath for None).
write_data(has_file, class, props, path, meta, d) ==
    LET class_name == IF ~has_file /\ class # "Folder" THEN class ELSE NoClass
        data == DataEntry(class_name, props, meta.keepUnknowns, meta.originalName)
    IN IF DataIsDefault(data)
       THEN [disk |-> IF Exists(d, path) THEN VfsRemove(d, path) ELSE d, path |-> NoPath]
       ELSE [disk |-> VfsWrite(d, path, data), path |-> path]

\* write_original_name: patches originalName of an existing sidecar, or
\* creates a sidecar that holds only the original name.
write_original_name(path, meta, d) ==
    IF Exists(d, path)
    THEN IF d[path].kind = "empty" \/ d[path].originalName = meta.originalName THEN d
         ELSE LET data == DataEntry(d[path].className, d[path].props,
                                    d[path].keepUnknowns, meta.originalName)
              IN IF DataIsDefault(data) THEN VfsRemove(d, path)
                 ELSE VfsWrite(d, path, data)
    ELSE LET data == DataEntry(NoClass, {}, FALSE, meta.originalName)
         IN IF DataIsDefault(data) THEN d ELSE VfsWrite(d, path, data)

\* Middleware::write: the script body goes to the main file, the other
\* properties are handed back for the sidecar.
MainProps == {"Source"}
middleware_write(props, path, d) ==
    [disk |-> VfsWrite(d, path, FileEntry(props \cap MainProps)),
     rest |-> props \ MainProps]

\* ------------------------------------------------------------------- Tree

Merge(f, g) == [x \in (DOMAIN f) \cup (DOMAIN g) |-> IF x \in DOMAIN g THEN g[x] ELSE f[x]]

Children(t, id) == {c \in DOMAIN t : t[c].parent = id}

RECURSIVE Descendants(_, _)
Descendants(t, id) ==
    LET cs == Children(t, id)
    IN cs \cup UNION {Descendants(t, c) : c \in cs}

\* Tree::insert_instance_with_ref: the instance alone, under the given parent.
insert_instance_with_ref(w, snap, meta, parent) ==
    [w EXCEPT !.tree = Merge(@, [i \in {snap.id} |->
                          [name |-> snap.name, class |-> snap.class,
                           parent |-> parent, props |-> snap.props]]),
              !.metas = Merge(@, [i \in {snap.id} |-> meta])]

\* Tree::remove_instance: the instance and all of its descendants.
remove_instance(w, id) ==
    LET gone == {id} \cup Descendants(w.tree, id)
    IN [w EXCEPT !.tree = [i \in (DOMAIN @) \ gone |-> @[i]],
                 !.metas = [i \in (DOMAIN @) \ gone |-> @[i]]]

\* ------------------------------------------------------- project document

DocRemove(doc, np) == [q \in {q \in DOMAIN doc : ~IsPrefix(np, q)} |-> doc[q]]
DocSubtree(doc, np) == [q \in {q \in DOMAIN doc : IsPrefix(np, q)} |-> doc[q]]
DocMove(doc, from, to) ==
    LET sub == DocSubtree(doc, from)
        rest == DocRemove(DocRemove(doc, from), to)
    IN Merge(rest, [q \in {Rebase(o, from, to) : o \in DOMAIN sub} |->
                       sub[CHOOSE o \in DOMAIN sub : Rebase(o, from, to) = q]])

\* ---------------------------------------------------------- apply_addition

\* write_instance: the main file or directory and the sidecar of one added
\* instance.  res is "some" (with the Meta to insert) or "none".
WriteInstanceNone(w, path, name) ==
    [res |-> "none", meta |-> MetaNew, path |-> path, name |-> name, w |-> w]

WriteInstanceSome(meta, path, name, w) ==
    [res |-> "some", meta |-> meta, path |-> path, name |-> name, w |-> w]

WriteInstanceSidecar(meta, path, name, w, wd) ==
    WriteInstanceSome([meta EXCEPT !.source = SetData(@, wd.path)], path, name,
                      [w EXCEPT !.disk = wd.disk])

WriteInstanceData(has_file, is_dir, class, rest, path, name, meta, w) ==
    IF matches_path(Locate(DataRule, path, name, is_dir))
    THEN WriteInstanceSome(meta, path, name, w)
    ELSE WriteInstanceSidecar(meta, path, name, w,
             write_data(has_file, class, rest, Locate(DataRule, path, name, is_dir),
                        meta, w.disk))

WriteInstanceMain(has_children, class, path, name, meta, w, mw) ==
    WriteInstanceData(TRUE, has_children, class, mw.rest, path, name, meta,
                      [w EXCEPT !.disk = mw.disk])

WriteInstanceFile(has_children, class, props, file_path, path, name, meta, w) ==
    IF matches_path(file_path)
    THEN WriteInstanceNone(w, path, name)
    ELSE WriteInstanceMain(has_children, class, path, name, meta, w,
                           middleware_write(props, file_path, w.disk))

\* An instance with a middleware and children: a directory with a child file.
WriteFolderScript(snap, path, file_path, w, vp) ==
    IF ~vp.ok THEN WriteInstanceNone(w, path, snap.name)
    ELSE WriteInstanceFile(TRUE, snap.class, snap.props, file_path, vp.path, vp.name,
             [vp.meta EXCEPT !.source = SourceChildFile(vp.path, file_path)],
             [w EXCEPT !.disk = VfsWriteDir(@, vp.path), !.uuid = vp.uuid])

\* An instance with a middleware and no children: a single file.
WriteLeafScript(snap, path, w, vp) ==
    IF ~vp.ok THEN WriteInstanceNone(w, path, snap.name)
    ELSE WriteInstanceFile(FALSE, snap.class, snap.props, vp.path, path, vp.name,
             [vp.meta EXCEPT !.source = SourceFile(vp.path)],
             [w EXCEPT !.uuid = vp.uuid])

\* An instance without a middleware: a directory and its sidecar.
WritePlainDirectory(snap, path, w, vp) ==
    IF ~vp.ok THEN WriteInstanceNone(w, path, snap.name)
    ELSE WriteInstanceData(FALSE, TRUE, snap.class, snap.props, vp.path, vp.name,
             [vp.meta EXCEPT !.source = SourceDirectory(vp.path)],
             [w EXCEPT !.disk = VfsWriteDir(@, vp.path), !.uuid = vp.uuid])

write_instance(has_children, path, snap, w, cfg) ==
    IF HasMiddleware(snap.class)
    THEN IF has_children
         THEN IF matches_path(path) THEN WriteInstanceNone(w, path, snap.name)
              ELSE WriteFolderScript(snap, path,
                       Locate(ScriptRule, path, snap.name, TRUE), w,
                       verify_path(path, snap.name, snap.meta, w.disk, w.uuid, cfg))
         ELSE WriteLeafScript(snap, path, w,
                  verify_path(Locate(ScriptRule, path, snap.name, FALSE), snap.name,
                              snap.meta, w.disk, w.uuid, cfg))
    ELSE IF matches_path(path) THEN WriteInstanceNone(w, path, snap.name)
         ELSE WritePlainDirectory(snap, path, w,
                  verify_path(path, snap.name, snap.meta, w.disk, w.uuid, cfg))

\* The file-to-folder transformation of a parent that gains a child.
\* res: "folder" (the parent is no single file), "refused" (verify_path
\* failed), "promoted" or "err" (no sync rule, or a rename failed).
PromoteResult(res, source, meta, path, snap, w) ==
    [res |-> res, source |-> source, meta |-> meta, path |-> path, snap |-> snap, w |-> w]

PromoteSidecar(folder_path, source, snap, meta, w, old_data, new_data) ==
    IF ~VfsCanRename(w.disk, old_data, new_data)
    THEN PromoteResult("err", source, meta, folder_path, snap, w)
    ELSE PromoteResult("promoted", AddData(source, new_data), meta, folder_path, snap,
                       [w EXCEPT !.disk = VfsRename(@, old_data, new_data)])

PromoteFile(parent_path, file_path, name, data_source, snap, meta, w) ==
    IF ~VfsCanRename(w.disk, parent_path, file_path)
    THEN PromoteResult("err", SourceChildFile(Front(file_path), file_path), meta,
                       Front(file_path), snap, w)
    ELSE IF HasEntry(data_source, "Data")
    THEN PromoteSidecar(Front(file_path), SourceChildFile(Front(file_path), file_path),
             snap, meta, [w EXCEPT !.disk = VfsRename(@, parent_path, file_path)],
             GetEntry(data_source, "Data"),
             Locate(DataRule, Front(file_path), name, TRUE))
    ELSE PromoteResult("promoted", SourceChildFile(Front(file_path), file_path), meta,
             Front(file_path), snap,
             [w EXCEPT !.disk = VfsRename(@, parent_path, file_path)])

PromoteVerified(parent_path, name, snap, parent_meta, w, vp) ==
    IF ~vp.ok
    THEN PromoteResult("refused", parent_meta.source, parent_meta, parent_path, snap, w)
    ELSE PromoteFile(parent_path, Locate(ScriptRule, vp.path, name, TRUE), name,
                     parent_meta.source, [snap EXCEPT !.name = vp.name], vp.meta,
                     [w EXCEPT !.disk = VfsWriteDir(@, vp.path), !.uuid = vp.uuid])

PromoteParent(parent_path, snap, parent_meta, w, cfg) ==
    IF ~IsFile(w.disk, parent_path)
    THEN PromoteResult("folder", parent_meta.source, parent_meta, parent_path, snap, w)
    ELSE IF ~RuleMatches(ScriptRule, parent_path)
    THEN PromoteResult("err", parent_meta.source, parent_meta, parent_path, snap, w)
    ELSE PromoteVerified(parent_path, NameOf(Last(parent_path)), snap, parent_meta, w,
             verify_path(WithFileName(parent_path, Comp(NameOf(Last(parent_path)), "")),
                         snap.name, parent_meta, w.disk, w.uuid, cfg))

RECURSIVE add_non_project_instances(_, _, _, _, _, _)
RECURSIVE AddNonProjectChildren(_, _, _, _, _, _)

\* What add_non_project_instances returns: the parent's Source (and Meta).
AddResult(res, pr, w) == [res |-> res, source |-> pr.source, meta |-> pr.meta, w |-> w]

AddNextChild(parent_id, path, rest, r, cfg) ==
    IF r.res = "err" THEN [res |-> "err", w |-> r.w]
    ELSE AddNonProjectChildren(parent_id, path, rest, r.meta, r.w, cfg)

\* The children of a written directory, in order; the first error stops.
AddNonProjectChildren(parent_id, path, children, meta, w, cfg) ==
    IF children = <<>> THEN [res |-> "ok", w |-> w]
    ELSE AddNextChild(parent_id, path, Tail(children),
             add_non_project_instances(parent_id, path,
                 [Head(children) EXCEPT !.props = validate_properties(@)], meta, w, cfg),
             cfg)

AddChildrenDone(pr, cr) == AddResult(cr.res, pr, cr.w)

AddInserted(pr, snap, wi, w, cfg) ==
    IF snap.children = <<>> THEN AddResult("ok", pr, w)
    ELSE AddChildrenDone(pr,
             AddNonProjectChildren(snap.id, wi.path, snap.children, wi.meta, w, cfg))

AddWritten(parent_id, pr, snap, wi, cfg) ==
    IF wi.res = "none" THEN AddResult("ok", pr, wi.w)
    ELSE AddInserted(pr, snap, wi,
             insert_instance_with_ref(wi.w, [snap EXCEPT !.name = wi.name], wi.meta,
                                      parent_id),
             cfg)

AddNamed(parent_id, pr, snap, cfg) ==
    AddWritten(parent_id, pr, snap,
        write_instance(snap.children # <<>>, Join(pr.path, Comp(snap.name, "")), snap,
                       pr.w, cfg),
        cfg)

AddVerified(parent_id, pr, vn, cfg) ==
    IF ~vn.ok THEN AddResult("ok", pr, pr.w)
    ELSE AddNamed(parent_id, pr, [pr.snap EXCEPT !.name = vn.name, !.meta = vn.meta], cfg)

AddPromoted(parent_id, pr, cfg) ==
    IF pr.res = "err" THEN AddResult("err", pr, pr.w)
    ELSE IF pr.res = "refused" THEN AddResult("ok", pr, pr.w)
    ELSE AddVerified(parent_id, pr, verify_name(pr.snap.name, pr.snap.meta, cfg), cfg)

add_non_project_instances(parent_id, parent_path, snapshot, parent_meta, w, cfg) ==
    AddPromoted(parent_id, PromoteParent(parent_path, snapshot, parent_meta, w, cfg), cfg)

RECURSIVE add_project_instances(_, _, _, _, _)
RECURSIVE AddProjectChildren(_, _, _, _, _, _)

\* NodeOf that stores the properties as they came, not serialized.
NodeOf_RawProperties(snapshot) ==
    [class |-> snapshot.class,
     props |-> snapshot.props,
     path |-> NoPath,
     keepUnknowns |-> snapshot.meta.keepUnknowns]

NodeOf(snapshot) ==
    [class |-> snapshot.class,
     props |-> serialize_properties(snapshot.class, snapshot.props),
     path |-> NoPath,
     keepUnknowns |-> snapshot.meta.keepUnknowns]

\* node.tree.insert(child.name, child node): a node of that name is replaced.
AddProjectNext(parent_id, file, node_path, rest, nodes, child_path, r) ==
    AddProjectChildren(parent_id, file, node_path, rest, r.w,
                       Merge(DocRemove(nodes, child_path), r.nodes))

AddProjectChildren(parent_id, file, node_path, children, w, nodes) ==
    IF children = <<>> THEN [w |-> w, nodes |-> nodes]
    ELSE AddProjectNext(parent_id, file, node_path, Tail(children), nodes,
             Append(node_path, Head(children).name),
             add_project_instances(parent_id, file, node_path,
                 [Head(children) EXCEPT !.props = validate_properties(@)], w))

\* Returns the Tree with the instances inserted and the nodes of the new
\* subtree, keyed by breadcrumb.  Every instance is inserted under parent_id.
add_project_instances(parent_id, file, node_path, snapshot, w) ==
    AddProjectChildren(parent_id, file, Append(node_path, snapshot.name),
        snapshot.children,
        insert_instance_with_ref(w, snapshot,
            [snapshot.meta EXCEPT !.source =
                SourceProject(snapshot.name, file, NodeOf(snapshot),
                              Append(node_path, snapshot.name))],
            parent_id),
        [q \in {Append(node_path, snapshot.name)} |-> NodeOf(snapshot)])

AdditionSkipped(snapshot, parent_id, w) ==
    \/ parent_id \notin DOMAIN w.tree
    \/ matches_name(snapshot.name)
    \/ matches_class(snapshot.class)

AdditionPathDone(parent_id, r) ==
    IF r.res = "err" THEN [res |-> "err", w |-> r.w]
    ELSE [res |-> "ok",
          w |-> [r.w EXCEPT !.metas[parent_id] = [r.meta EXCEPT !.source = r.source]]]

\* AdditionCustomPathDone that stores the Source returned by the Path logic.
AdditionCustomPathDone_PathSource(parent_id, src, r) ==
    IF r.res = "err" THEN [res |-> "err", w |-> r.w]
    ELSE [res |-> "ok",
          w |-> [r.w EXCEPT !.metas[parent_id] = [r.meta EXCEPT !.source = r.source]]]

AdditionCustomPathDone(parent_id, src, r) ==
    IF r.res = "err" THEN [res |-> "err", w |-> r.w]
    ELSE [res |-> "ok",
          w |-> [r.w EXCEPT !.metas[parent_id] =
                    [r.meta EXCEPT !.source =
                        [SourceProject(src.name, src.file, src.node, src.nodePath)
                            EXCEPT !.relevant = r.source.relevant]]]]

\* project.save comes after the instances were inserted in the Tree; when
\* it fails the document is as it was.
AdditionProjectDone(np, r, cfg) ==
    IF ~cfg.saves THEN [res |-> "err", w |-> r.w]
    ELSE [res |-> "ok", w |-> [r.w EXCEPT !.project = Merge(DocRemove(@, np), r.nodes)]]

AdditionDispatch(snapshot, parent_id, parent_meta, w, cfg) ==
    CASE parent_meta.source.kind = "Path" ->
             AdditionPathDone(parent_id,
                 add_non_project_instances(parent_id, parent_meta.source.path, snapshot,
                                           parent_meta, w, cfg))
      [] parent_meta.source.kind = "Project" /\ parent_meta.source.node.path # NoPath ->
             AdditionCustomPathDone(parent_id, parent_meta.source,
                 add_non_project_instances(parent_id, parent_meta.source.node.path,
                                           snapshot, parent_meta, w, cfg))
      [] parent_meta.source.kind = "Project" /\ parent_meta.source.node.path = NoPath ->
             IF \/ ~Exists(w.disk, parent_meta.source.file)
                \/ parent_meta.source.nodePath \notin DOMAIN w.project
             THEN [res |-> "err", w |-> w]
             ELSE AdditionProjectDone(Append(parent_meta.source.nodePath, snapshot.name),
                      add_project_instances(parent_id, parent_meta.source.file,
                                            parent_meta.source.nodePath, snapshot, w),
                      cfg)
      [] OTHER -> [res |-> "panic", w |-> w]

\* apply_addition without the check of the parent: the lookup of the
\* parent's instance is unwrapped.
apply_addition_ParentUnchecked(snapshot, parent_id, w, cfg) ==
    IF matches_name(snapshot.name) \/ matches_class(snapshot.class)
    THEN [res |-> "ok", w |-> w]
    ELSE IF parent_id \notin DOMAIN w.tree THEN [res |-> "panic", w |-> w]
    ELSE AdditionDispatch([snapshot EXCEPT !.props = validate_properties(@)], parent_id,
                          w.metas[parent_id], w, cfg)

\* apply_addition: res is "ok", "err" or "panic".
apply_addition(snapshot, parent_id, w, cfg) ==
    IF AdditionSkipped(snapshot, parent_id, w) THEN [res |-> "ok", w |-> w]
    ELSE AdditionDispatch([snapshot EXCEPT !.props = validate_properties(@)], parent_id,
                          w.metas[parent_id], w, cfg)

\* ------------------------------------------------------------ apply_update

\* locate_instance_data of apply_update: the recorded sidecar path, or the
\* one the sync rule gives.
locate_instance_data(name, path, meta, d) ==
    IF HasEntry(meta.source, "Data") THEN GetEntry(meta.source, "Data")
    ELSE Locate(DataRule, path, name, IsDir(d, path))

\* What update_non_project_properties leaves behind; res is "ok" or "err".
PropsResult(res, instance, meta, d) ==
    [res |-> res, instance |-> instance, meta |-> meta, disk |-> d]

UpdateDataWritten(instance, properties, meta, wd) ==
    PropsResult("ok", [instance EXCEPT !.props = properties],
                [meta EXCEPT !.source = SetData(@, wd.path)], wd.disk)

UpdateData(has_file, instance, properties, rest, path, meta, d) ==
    IF matches_path(locate_instance_data(instance.name, path, meta, d))
    THEN PropsResult("ok", [instance EXCEPT !.props = properties], meta, d)
    ELSE UpdateDataWritten(instance, properties, meta,
             write_data(has_file, instance.class, rest,
                        locate_instance_data(instance.name, path, meta, d), meta, d))

UpdateFileWritten(instance, properties, path, meta, mw) ==
    UpdateData(TRUE, instance, properties, mw.rest, path, meta, mw.disk)

UpdateFile(instance, properties, path, file_path, meta, d) ==
    UpdateFileWritten(instance, properties, path, meta,
                      middleware_write(properties, file_path, d))

\* The main file follows the location the sync rule computes for it.
UpdateFileLocation(instance, properties, path, new_path, meta, d) ==
    IF HasEntry(meta.source, "File")
    THEN IF GetEntry(meta.source, "File") = new_path
         THEN UpdateFile(instance, properties, path, new_path, meta, d)
         ELSE IF ~VfsCanRename(d, GetEntry(meta.source, "File"), new_path)
         THEN PropsResult("err", instance, meta, d)
         ELSE UpdateFile(instance, properties, path, new_path,
                  [meta EXCEPT !.source.relevant =
                      (@ \ EntriesOf(meta.source, "File")) \cup {<<"File", new_path>>}],
                  VfsRename(d, GetEntry(meta.source, "File"), new_path))
    ELSE UpdateFile(instance, properties, path, new_path,
                    [meta EXCEPT !.source = AddFile(@, new_path)], d)

update_non_project_properties(path, properties, instance, meta, d) ==
    IF matches_path(path) THEN PropsResult("ok", instance, meta, d)
    ELSE IF HasMiddleware(instance.class)
    THEN UpdateFileLocation(instance, validate_properties(properties), path,
             Locate(ScriptRule, path, instance.name, IsDir(d, path)), meta, d)
    ELSE UpdateData(FALSE, instance, validate_properties(properties),
                    validate_properties(properties), path, meta, d)

\* What the renames of a name change leave behind; renames counts the
\* vfs.rename calls that succeeded.
RenameResult(res, meta, d, renames) ==
    [res |-> res, meta |-> meta, disk |-> d, renames |-> renames]

\* The renames of a folder source: the folder itself, then every File and
\* Data entry is rewritten to live under the new folder.
RenameFolder(current, new_path, meta, d) ==
    IF matches_path(current) /\ matches_path(new_path) THEN RenameResult("ok", meta, d, 0)
    ELSE IF ~VfsCanRename(d, current, new_path) THEN RenameResult("err", meta, d, 0)
    ELSE RenameResult("ok",
             [meta EXCEPT !.source.relevant =
                 {IF e[1] = "Folder" THEN <<"Folder", new_path>>
                  ELSE IF e[1] \in {"File", "Data"}
                       THEN <<e[1], Join(new_path, Last(e[2]))>>
                       ELSE e : e \in @}],
             VfsRename(d, current, new_path), 1)

RenameFolderSource(name, meta, d) ==
    RenameFolder(GetEntry(meta.source, "Folder"),
                 WithFileName(GetEntry(meta.source, "Folder"), Comp(name, "")), meta, d)

\* One relevant entry of a leaf source.
RenameEntry(type, current, new_path, r) ==
    IF matches_path(current) /\ matches_path(new_path) THEN r
    ELSE IF ~VfsCanRename(r.disk, current, new_path) THEN [r EXCEPT !.res = "err"]
    ELSE RenameResult("ok",
             [r.meta EXCEPT !.source.relevant = (@ \ {<<type, current>>})
                                                    \cup {<<type, new_path>>}],
             VfsRename(r.disk, current, new_path), r.renames + 1)

RenameLeafEntry(type, old, name, r) ==
    IF r.res = "err" \/ ~HasEntry(r.meta.source, type) THEN r
    ELSE RenameEntry(type, GetEntry(r.meta.source, type),
                     rename_path(GetEntry(r.meta.source, type), old, name), r)

\* The renames of a leaf source: every File and Data entry on its own.
RenameLeafSource(old, name, meta, d) ==
    RenameLeafEntry("Data", old, name,
        RenameLeafEntry("File", old, name, RenameResult("ok", meta, d, 0)))

RenameSource(old, name, meta, d) ==
    IF HasEntry(meta.source, "Folder") THEN RenameFolderSource(name, meta, d)
    ELSE RenameLeafSource(old, name, meta, d)

\* The name part of apply_update on a Path source.
\* res: "ok", "stop" (a verify helper refused: the call returns Ok) or "err".
NameResult(res, instance, meta, path, w, renames) ==
    [res |-> res, instance |-> instance, meta |-> meta, path |-> path, w |-> w,
     renames |-> renames]

\* A name-only update patches originalName in the sidecar.
PatchOriginalName(update, original_name, name, path, meta, d) ==
    IF /\ original_name # meta.originalName
       /\ ~update.hasProps
       /\ ~matches_path(locate_instance_data(name, path, meta, d))
    THEN write_original_name(locate_instance_data(name, path, meta, d), meta, d)
    ELSE d

UpdateNameRenamed(update, instance, meta0, w, vp, rn) ==
    IF rn.res = "err"
    THEN NameResult("err", instance, meta0, vp.path,
                    [w EXCEPT !.disk = rn.disk, !.uuid = vp.uuid], rn.renames)
    ELSE NameResult("ok",
             [instance EXCEPT !.name = IF rn.meta.originalName # NoName
                                       THEN rn.meta.originalName ELSE vp.name],
             rn.meta, vp.path,
             [w EXCEPT !.disk = PatchOriginalName(update, meta0.originalName, vp.name,
                                                  vp.path, rn.meta, rn.disk),
                       !.uuid = vp.uuid],
             rn.renames)

UpdateNamePath(update, instance, meta0, w, vp) ==
    IF ~vp.ok THEN NameResult("stop", instance, meta0, meta0.source.path, w, 0)
    ELSE UpdateNameRenamed(update, instance, meta0, w, vp,
             RenameSource(instance.name, vp.name,
                          [vp.meta EXCEPT !.source.path = vp.path], w.disk))

UpdateNameVerified(update, instance, meta0, w, cfg, vn) ==
    IF ~vn.ok THEN NameResult("stop", instance, meta0, meta0.source.path, w, 0)
    ELSE UpdateNamePath(update, instance, meta0, w,
             verify_path(rename_path(meta0.source.path, instance.name, vn.name),
                         vn.name, vn.meta, w.disk, w.uuid, cfg))

UpdatePathName(update, instance, meta0, w, cfg) ==
    UpdateNameVerified(update, instance, meta0, w, cfg,
                       verify_name(update.name, meta0, cfg))

\* UpdateSkipped without the checks of the incoming name and class.
UpdateSkipped_CurrentOnly(update, w) ==
    \/ update.id \notin DOMAIN w.tree
    \/ matches_name(w.tree[update.id].name)
    \/ matches_class(w.tree[update.id].class)

UpdateSkipped(update, w) ==
    \/ update.id \notin DOMAIN w.tree
    \/ matches_name(w.tree[update.id].name)
    \/ matches_class(w.tree[update.id].class)
    \/ (update.name # NoName /\ matches_name(update.name))
    \/ (update.class # NoClass /\ matches_class(update.class))

UpdateResult(res, w, renames) == [res |-> res, w |-> w, renames |-> renames]

\* The class / meta protocol check that ends both branches of apply_update.
UpdateProtocol(update, w, renames) ==
    UpdateResult(IF update.class # NoClass \/ update.hasMeta THEN "panic" ELSE "ok",
                 w, renames)

\* The instance is mutated in place, the Meta is a clone that is stored by
\* tree.update_meta after the properties.
UpdatePathPropsDone(update, nm, pr) ==
    IF pr.res = "err"
    THEN UpdateResult("err", [nm.w EXCEPT !.tree[update.id] = pr.instance,
                                          !.disk = pr.disk], nm.renames)
    ELSE UpdateProtocol(update,
             [nm.w EXCEPT !.tree[update.id] = pr.instance,
                          !.metas[update.id] = pr.meta,
                          !.disk = pr.disk],
             nm.renames)

UpdatePathProps(update, nm) ==
    IF nm.res = "stop" THEN UpdateResult("ok", nm.w, 0)
    ELSE IF nm.res = "err"
    THEN UpdateResult("err", [nm.w EXCEPT !.tree[update.id] = nm.instance], nm.renames)
    ELSE IF update.hasProps
    THEN UpdatePathPropsDone(update, nm,
             update_non_project_properties(nm.path, update.props, nm.instance, nm.meta,
                                           nm.w.disk))
    ELSE UpdateProtocol(update,
             [nm.w EXCEPT !.tree[update.id] = nm.instance, !.metas[update.id] = nm.meta],
             nm.renames)

UpdatePath(update, w, cfg) ==
    IF update.name # NoName
    THEN UpdatePathProps(update,
             UpdatePathName(update, w.tree[update.id], w.metas[update.id], w, cfg))
    ELSE UpdatePathProps(update,
             NameResult("ok", w.tree[update.id], w.metas[update.id],
                        w.metas[update.id].source.path, w, 0))

\* The parts of apply_update on a Project source; doc is the loaded
\* document, which is saved at the end of the call only.
ProjectResult(res, instance, meta, doc, d) ==
    [res |-> res, instance |-> instance, meta |-> meta, doc |-> doc, disk |-> d]

\* UpdateCustomPathDone that leaves the node's fields in the document.
UpdateCustomPathDone_NodeKept(node_path, doc, r) ==
    IF r.res = "err" \/ node_path \notin DOMAIN doc
    THEN ProjectResult("err", r.instance, r.meta, doc, r.disk)
    ELSE ProjectResult("ok", r.instance, r.meta, doc, r.disk)

UpdateCustomPathDone(node_path, doc, r) ==
    IF r.res = "err" \/ node_path \notin DOMAIN doc
    THEN ProjectResult("err", r.instance, r.meta, doc, r.disk)
    ELSE ProjectResult("ok", r.instance, r.meta,
             [doc EXCEPT ![node_path].props = {}, ![node_path].keepUnknowns = FALSE],
             r.disk)

UpdateProjectProps(update, instance, meta, doc, d) ==
    IF meta.source.node.path # NoPath
    THEN UpdateCustomPathDone(meta.source.nodePath, doc,
             update_non_project_properties(meta.source.node.path, update.props,
                                           instance, meta, d))
    ELSE IF meta.source.nodePath \notin DOMAIN doc
    THEN ProjectResult("err", instance, meta, doc, d)
    ELSE ProjectResult("ok",
             [instance EXCEPT !.props = validate_properties(update.props)], meta,
             [doc EXCEPT ![meta.source.nodePath].props =
                             serialize_properties(doc[meta.source.nodePath].class,
                                                  validate_properties(update.props)),
                         ![meta.source.nodePath].keepUnknowns = FALSE],
             d)

\* The name part: the node is taken out of the parent's child map under the
\* old name and put back under the new one.
\* UpdateProjectRename that inserts the node under the new name and leaves
\* it under the old one.
UpdateProjectRename_OldKept(update, instance, meta, doc, d, old_path, new_node_path) ==
    IF Front(old_path) \notin DOMAIN doc \/ old_path \notin DOMAIN doc
    THEN ProjectResult("err", instance, meta, doc, d)
    ELSE ProjectResult("ok", [instance EXCEPT !.name = update.name],
             [meta EXCEPT !.source.name = update.name,
                          !.source.node = doc[old_path],
                          !.source.nodePath = new_node_path],
             Merge(doc, DocMove(doc, old_path, new_node_path)), d)

UpdateProjectRename(update, instance, meta, doc, d, old_path, new_node_path) ==
    IF Front(old_path) \notin DOMAIN doc \/ old_path \notin DOMAIN doc
    THEN ProjectResult("err", instance, meta, doc, d)
    ELSE ProjectResult("ok", [instance EXCEPT !.name = update.name],
             [meta EXCEPT !.source.name = update.name,
                          !.source.node = doc[old_path],
                          !.source.nodePath = new_node_path],
             DocMove(doc, old_path, new_node_path), d)

UpdateProjectName(update, pr) ==
    IF pr.res = "err" \/ update.name = NoName THEN pr
    ELSE UpdateProjectRename(update, pr.instance, pr.meta, pr.doc, pr.disk,
             Append(Front(pr.meta.source.nodePath), pr.meta.source.name),
             Append(Front(pr.meta.source.nodePath), update.name))

\* tree.update_meta comes before project.save; when the save fails the
\* document is as it was.
UpdateProjectSaved(update, w, pr, nm, cfg) ==
    IF pr.res = "err" \/ nm.res = "err"
    THEN UpdateResult("err", [w EXCEPT !.tree[update.id] = pr.instance,
                                       !.disk = pr.disk], 0)
    ELSE IF ~cfg.saves
    THEN UpdateResult("err", [w EXCEPT !.tree[update.id] = nm.instance,
                                       !.metas[update.id] = nm.meta,
                                       !.disk = nm.disk], 0)
    ELSE UpdateProtocol(update,
             [w EXCEPT !.tree[update.id] = nm.instance, !.metas[update.id] = nm.meta,
                       !.project = nm.doc, !.disk = nm.disk],
             0)

UpdateProjectNamed(update, w, pr, cfg) ==
    UpdateProjectSaved(update, w, pr, UpdateProjectName(update, pr), cfg)

UpdateProject(update, w, cfg) ==
    IF ~Exists(w.disk, w.metas[update.id].source.file) THEN UpdateResult("err", w, 0)
    ELSE IF update.hasProps
    THEN UpdateProjectNamed(update, w,
             UpdateProjectProps(update, w.tree[update.id], w.metas[update.id],
                                w.project, w.disk),
             cfg)
    ELSE UpdateProjectNamed(update, w,
             ProjectResult("ok", w.tree[update.id], w.metas[update.id], w.project,
                           w.disk),
             cfg)

\* apply_update that makes the class / meta check before anything is
\* changed.
apply_update_CheckedFirst(update, w, cfg) ==
    IF UpdateSkipped(update, w) THEN UpdateResult("ok", w, 0)
    ELSE IF update.class # NoClass \/ update.hasMeta THEN UpdateResult("panic", w, 0)
    ELSE CASE w.metas[update.id].source.kind = "Path" -> UpdatePath(update, w, cfg)
           [] w.metas[update.id].source.kind = "Project" -> UpdateProject(update, w, cfg)
           [] OTHER -> UpdateResult("panic", w, 0)

\* apply_update: res is "ok", "err" or "panic"; renames counts the disk
\* renames of the name change.
apply_update(update, w, cfg) ==
    IF UpdateSkipped(update, w) THEN UpdateResult("ok", w, 0)
    ELSE CASE w.metas[update.id].source.kind = "Path" -> UpdatePath(update, w, cfg)
           [] w.metas[update.id].source.kind = "Project" -> UpdateProject(update, w, cfg)
           [] OTHER -> UpdateResult("panic", w, 0)

\* ----------------------------------------------------------- apply_removal

\* The deletion loop: every relevant entry that is not a Project entry,
\* exists and is not excluded by the filter is removed.
RemoveRelevant(meta, d) ==
    LET doomed == {e[2] : e \in {e \in meta.source.relevant :
                       e[1] # "Project" /\ Exists(d, e[2]) /\ ~matches_path(e[2])}}
    IN [q \in {q \in DOMAIN d : \A p \in doomed : ~IsPrefix(p, q)} |-> d[q]]

\* The parent is transformed when it has exactly one child at the time of
\* the check, which precedes tree.remove_instance.
\* CollapseWanted counting the children as if the instance had already
\* been taken out of the Tree.
CollapseWanted_AfterRemoval(id, w) ==
    Cardinality(Children(w.tree, w.tree[id].parent)) = 0

\* CollapseWanted without the count of the children.
CollapseWanted_Always(id, w) == TRUE

CollapseWanted(id, w) == Cardinality(Children(w.tree, w.tree[id].parent)) = 1

RemovalResult(res, w) == [res |-> res, w |-> w]

CollapseDone(parent, folder_path, source, w) ==
    RemovalResult("ok", [w EXCEPT !.disk = VfsRemove(@, folder_path),
                                  !.metas[parent].source = source])

CollapseData(parent, folder_path, new_path, data_in, new_data, w) ==
    IF ~VfsCanRename(w.disk, data_in, new_data) THEN RemovalResult("err", w)
    ELSE CollapseDone(parent, folder_path, AddData(SourceFile(new_path), new_data),
                      [w EXCEPT !.disk = VfsRename(@, data_in, new_data)])

CollapseFile(parent, source, folder_path, file_in, new_path, w) ==
    IF ~VfsCanRename(w.disk, file_in, new_path) THEN RemovalResult("err", w)
    ELSE IF HasEntry(source, "Data")
    THEN CollapseData(parent, folder_path, new_path, GetEntry(source, "Data"),
                      Locate(DataRule, folder_path, NameOf(Last(folder_path)), FALSE),
                      [w EXCEPT !.disk = VfsRename(@, file_in, new_path)])
    ELSE CollapseDone(parent, folder_path, SourceFile(new_path),
                      [w EXCEPT !.disk = VfsRename(@, file_in, new_path)])

\* The folder-to-file transformation of the parent (a Path source that has
\* a File entry matched by a child pattern).
CollapseParent(parent, w) ==
    IF w.metas[parent].source.kind # "Path" \/ ~HasEntry(w.metas[parent].source, "File")
    THEN RemovalResult("ok", w)
    ELSE IF ~RuleMatchesChild(ScriptRule, GetEntry(w.metas[parent].source, "File"))
    THEN RemovalResult("ok", w)
    ELSE CollapseFile(parent, w.metas[parent].source, w.metas[parent].source.path,
             GetEntry(w.metas[parent].source, "File"),
             Locate(ScriptRule, w.metas[parent].source.path,
                    NameOf(Last(w.metas[parent].source.path)), FALSE),
             w)

RemoveEntriesDone(id, w) ==
    IF w.tree[id].parent \notin DOMAIN w.tree THEN RemovalResult("err", w)
    ELSE IF ~CollapseWanted(id, w) THEN RemovalResult("ok", w)
    ELSE CollapseParent(w.tree[id].parent, w)

remove_non_project_instances(id, meta, w) ==
    RemoveEntriesDone(id, [w EXCEPT !.disk = RemoveRelevant(meta, @)])

\* RemovalSkipped without the filter.
RemovalSkipped_NoFilter(id, w) == id \notin DOMAIN w.tree

RemovalSkipped(id, w) ==
    \/ id \notin DOMAIN w.tree
    \/ matches_name(w.tree[id].name)
    \/ matches_class(w.tree[id].class)

RemoveProjectSaved(node_path, r) ==
    IF r.res = "err" THEN r
    ELSE RemovalResult("ok", [r.w EXCEPT !.project = DocRemove(@, node_path)])

\* RemoveProjectNode that carries on when the node is absent.
RemoveProjectNode_AbsentIgnored(id, meta, node_path, w) ==
    IF meta.source.node.path # NoPath
    THEN RemoveProjectSaved(node_path, remove_non_project_instances(id, meta, w))
    ELSE RemoveProjectSaved(node_path, RemovalResult("ok", w))

RemoveProjectNode(id, meta, node_path, w) ==
    IF Front(node_path) \notin DOMAIN w.project \/ node_path \notin DOMAIN w.project
    THEN RemovalResult("err", w)
    ELSE IF meta.source.node.path # NoPath
    THEN RemoveProjectSaved(node_path, remove_non_project_instances(id, meta, w))
    ELSE RemoveProjectSaved(node_path, RemovalResult("ok", w))

RemoveProject(id, meta, w) ==
    IF ~Exists(w.disk, meta.source.file) THEN RemovalResult("err", w)
    ELSE RemoveProjectNode(id, meta,
             Append(Front(meta.source.nodePath), meta.source.name), w)

\* RemovalDone that leaves the instance in the Tree.
RemovalDone_TreeKept(id, r) == r

\* RemovalDone that takes the instance out of the Tree whatever the result.
RemovalDone_ErrorIgnored(id, r) == RemovalResult(r.res, remove_instance(r.w, id))

RemovalDone(id, r) ==
    IF r.res = "ok" THEN RemovalResult("ok", remove_instance(r.w, id)) ELSE r

\* RemovalDispatch that skips an instance without a source.
RemovalDispatch_SourcelessSkipped(id, meta, w) ==
    CASE meta.source.kind = "Path" -> remove_non_project_instances(id, meta, w)
      [] meta.source.kind = "Project" -> RemoveProject(id, meta, w)
      [] OTHER -> RemovalResult("ok", w)

RemovalDispatch(id, meta, w) ==
    CASE meta.source.kind = "Path" -> remove_non_project_instances(id, meta, w)
      [] meta.source.kind = "Project" -> RemoveProject(id, meta, w)
      [] OTHER -> RemovalResult("panic", w)

\* apply_removal: res is "ok", "err" or "panic".
apply_removal(id, w) ==
    IF RemovalSkipped(id, w) THEN RemovalResult("ok", w)
    ELSE RemovalDone(id, RemovalDispatch(id, w.metas[id], w))

\* ------------------------------------------------------------ initial state

ProjectFile == << <<"default", 0, "project.json">> >>
SrcDir == << <<"src", 0, "">> >>

Root == 1
Srv == 2
Net == 3
LeafA == 4
FolderF == 5
ChildC == 6
ChildX == 7
Cam == 8
FolderA == 9
Bare == 13
Lib == 14

PathA == Join(SrcDir, Comp(N("A"), "luau"))
PathFolderA == Join(SrcDir, Comp(N("A"), ""))
DataA == Join(SrcDir, Comp(N("A"), "data.json"))
PathF == Join(SrcDir, Comp(N("F"), ""))
PathC == Join(PathF, Comp(N("C"), "luau"))
PathX == Join(PathF, Comp(N("X"), "luau"))
PathLib == <<Comp(N("Lib"), "luau")>>

SrvNode == [class |-> NoClass, props |-> {Json("Size")}, path |-> SrcDir, keepUnknowns |-> TRUE]
NetNode == [class |-> "Folder", props |-> {}, path |-> NoPath, keepUnknowns |-> FALSE]
CamNode == [class |-> "Camera", props |-> {}, path |-> NoPath, keepUnknowns |-> FALSE]
LibNode == [class |-> NoClass, props |-> {}, path |-> PathLib, keepUnknowns |-> FALSE]
RootNode == [class |-> "DataModel", props |-> {}, path |-> NoPath, keepUnknowns |-> FALSE]

Inst(name, class, parent, props) ==
    [name |-> name, class |-> class, parent |-> parent, props |-> props]

BaseTree ==
    (Root :> Inst(N("game"), "DataModel", 0, {})) @@
    (Srv :> Inst(N("Srv"), "Folder", Root, {})) @@
    (Net :> Inst(N("Net"), "Folder", Root, {})) @@
    (LeafA :> Inst(N("A"), "ModuleScript", Srv, {"Source"})) @@
    (FolderF :> Inst(N("F"), "ModuleScript", Srv, {"Source"})) @@
    (ChildC :> Inst(N("C"), "ModuleScript", FolderF, {"Source"})) @@
    (ChildX :> Inst(N("X"), "ModuleScript", FolderF, {"Source"})) @@
    (Cam :> Inst(N("Cam"), "Camera", Root, {})) @@
    (Bare :> Inst(N("Bare"), "Folder", Root, {})) @@
    (Lib :> Inst(N("Lib"), "ModuleScript", Root, {"Source"}))

\* twin: a plain Folder named like the leaf A stands beside it.
InitTree(twin) ==
    IF twin THEN (FolderA :> Inst(N("A"), "Folder", Srv, {})) @@ BaseTree ELSE BaseTree

WithSource(source) == [MetaNew EXCEPT !.source = source]

\* The Source of the project root as read_project builds it, and of a node
\* with a custom path as new_snapshot_node builds it.
RootSource == [SourceFile(ProjectFile) EXCEPT !.relevant = @ \cup {<<"Project", ProjectFile>>}]
SrvSource ==
    [SourceProject(N("Srv"), ProjectFile, SrvNode, <<N("Srv")>>)
        EXCEPT !.relevant = @ \cup {<<"Folder", SrcDir>>}]

LibSource ==
    [SourceProject(N("Lib"), ProjectFile, LibNode, <<N("Lib")>>)
        EXCEPT !.relevant = @ \cup {<<"File", PathLib>>}]

BaseMetas(sidecar) ==
    (Root :> WithSource(RootSource)) @@
    (Srv :> WithSource(SrvSource)) @@
    (Net :> WithSource(SourceProject(N("Net"), ProjectFile, NetNode, <<N("Net")>>))) @@
    (LeafA :> [WithSource(IF sidecar THEN AddData(SourceFile(PathA), DataA)
                          ELSE SourceFile(PathA))
                  EXCEPT !.keepUnknowns = sidecar]) @@
    (FolderF :> WithSource(SourceChildFile(PathF, Join(PathF, SrcChild)))) @@
    (ChildC :> WithSource(SourceFile(PathC))) @@
    (ChildX :> WithSource(SourceFile(PathX))) @@
    (Cam :> WithSource(SourceProject(N("Cam"), ProjectFile, CamNode, <<N("Cam")>>))) @@
    (Bare :> MetaNew) @@
    (Lib :> WithSource(LibSource))

InitMetas(sidecar, twin) ==
    IF twin THEN (FolderA :> WithSource(SourceDirectory(PathFolderA))) @@ BaseMetas(sidecar)
    ELSE BaseMetas(sidecar)

InitDisk(sidecar, twin) ==
    LET base == (ProjectFile :> ProjectEntry) @@
                (SrcDir :> DirEntry) @@
                (PathA :> FileEntry({"Source"})) @@
                (PathF :> DirEntry) @@
                (Join(PathF, SrcChild) :> FileEntry({"Source"})) @@
                (PathC :> FileEntry({"Source"})) @@
                (PathX :> FileEntry({"Source"})) @@
                (PathLib :> FileEntry({"Source"}))
        data == IF sidecar THEN (DataA :> DataEntry(NoClass, {}, TRUE, NoName)) @@ base
                ELSE base
    IN IF twin THEN (PathFolderA :> DirEntry) @@ data ELSE data

InitProject ==
    (<<>> :> RootNode) @@
    (<<N("Srv")>> :> SrvNode) @@
    (<<N("Net")>> :> NetNode) @@
    (<<N("Cam")>> :> CamNode) @@
    (<<N("Lib")>> :> LibNode)

NoSnapshot == [id |-> 0, name |-> NoName, class |-> NoClass, props |-> {},
               meta |-> MetaNew, children |-> <<>>]

NoCall == [op |-> "none", res |-> "ok", id |-> 0, parent |-> 0, name |-> NoName,
           class |-> NoClass, hasProps |-> FALSE, props |-> {}, hasMeta |-> FALSE,
           snapshot |-> NoSnapshot, renames |-> 0]

\* The Tree, the file system and the project document the engine works on.
World == [disk |-> disk, tree |-> tree, metas |-> metas, project |-> project, uuid |-> uuid]

\* The projects the engine starts on: the leaf A alone, with a sidecar, or
\* beside a folder of its name.
Layouts == {[sidecar |-> FALSE, twin |-> FALSE],
            [sidecar |-> TRUE, twin |-> FALSE],
            [sidecar |-> FALSE, twin |-> TRUE]}

\* No leaf has been promoted to a folder.
NoOrigin == [id |-> 0, meta |-> MetaNew, disk |-> <<>>]

\* last is the call made last and prev the World it was made in; origin
\* remembers the leaf that an addition promoted to a folder, as it was,
\* for as long as the calls that follow add or remove children of it.
\* Nothing has been resolved or read, no mutex is held.
\* ----------------------------------------------------------------- updater

\* Times are seconds of the system clock. The first call is made at Start;
\* the clock is followed for MaxHours hours.
UPDATE_CHECK_INTERVAL == 3600
one_hour == 60 * 60
UNIX_EPOCH == 0
MaxHours == 2
Start == 2 * one_hour
Horizon == Start + MaxHours * one_hour

\* update.toml: whether it is there and can be parsed, and its last_checked.
UpdateStatus(valid, last_checked) == [valid |-> valid, last_checked |-> last_checked]

\* What a call has done: release lookups, updates of the plugin, the
\* templates or the extension, writes of update.toml, the CLI binary
\* installed, the running sessions stopped, and the status file it leaves.
Outcome(result, status, lookups, writes) ==
    [result |-> result, status |-> status, lookups |-> lookups, writes |-> writes,
     updated |-> FALSE, installed |-> FALSE, stopped |-> FALSE, completed |-> FALSE]

\* get_status: a missing or corrupted file is replaced by the default one.
get_status(status) ==
    IF status.valid THEN Outcome("ok", status, 0, 0)
    ELSE Outcome("ok", UpdateStatus(TRUE, UNIX_EPOCH), 0, 1)

\* update_cli at the time now; release is what get_latest_release gives
\* ("error", "same" or "newer") and install what update.update() gives.
update_cli(auto_update, file, now, release, install) ==
    LET status == get_status(file).status
        read == get_status(file)
        written == [read EXCEPT !.status.last_checked = now, !.writes = @ + 1,
                                !.lookups = 1]
    IN
    IF ~auto_update /\ status.last_checked > now THEN [read EXCEPT !.result = "err"]
    ELSE IF ~auto_update /\ now - status.last_checked < UPDATE_CHECK_INTERVAL
    THEN [read EXCEPT !.result = "false"]
    ELSE IF release = "error" THEN [read EXCEPT !.result = "err", !.lookups = 1]
    ELSE IF release = "same" THEN [written EXCEPT !.result = "false"]
    ELSE IF auto_update
    THEN IF install = "Updated"
         THEN [written EXCEPT !.result = "true", !.stopped = TRUE, !.installed = TRUE]
         ELSE [read EXCEPT !.result = "false", !.lookups = 1, !.stopped = TRUE]
    ELSE [read EXCEPT !.result = "false", !.lookups = 1]

Recent_Never(now, last_checked) == FALSE

\* The test of check_for_updates: a check was made within the last hour
\* (a last_checked that is later than now counts as an hour ago).
Recent(now, last_checked) ==
    (IF now >= last_checked THEN now - last_checked ELSE one_hour) < one_hour

\* check_for_updates, from now to later; components is what the updates
\* of plugin, templates and extension come to: one of them fails with an
\* error that is passed on ("err"), none is needed, or one is installed.
check_for_updates(plugin, templates, file, now, later, release, components) ==
    LET read == get_status(file)
        called == update_cli(FALSE, read.status, now, release, "UpToDate")
        cli == [called EXCEPT !.writes = @ + read.writes]
        lookups == cli.lookups + (IF plugin THEN 1 ELSE 0)
        failed == components = "err" /\ (plugin \/ templates)
    IN
    IF Recent(now, read.status.last_checked) THEN read
    ELSE IF cli.result = "err" THEN cli
    ELSE IF failed THEN [cli EXCEPT !.result = "err", !.lookups = lookups]
    ELSE [cli EXCEPT !.result = "ok", !.lookups = lookups,
                     !.updated = components = "updated",
                     !.status = UpdateStatus(TRUE, later),
                     !.writes = @ + 1, !.completed = TRUE]

NoUpdate == [name |-> "none", auto_update |-> FALSE, at |-> Start, until |-> Start,
           before |-> UpdateStatus(FALSE, UNIX_EPOCH), checked |-> 0 - 1,
           done |-> Outcome("ok", UpdateStatus(FALSE, UNIX_EPOCH), 0, 0)]
NoUpdater == [clock |-> Start, status |-> UpdateStatus(FALSE, UNIX_EPOCH), checked |-> 0 - 1,
              call |-> NoUpdate]
UpdaterIdle == updater = NoUpdater


NoResolution == [call |-> "none"]
NoLoad == [call |-> "none"]
NoAttempt == [thread |-> "none"]
Mutexes == {"tree", "project"}
Threads == {"server", "watcher", "client"}
Unlocked(kind) == [kind |-> kind, holder |-> "none", poisoned |-> FALSE]
Running == [state |-> "running", guards |-> {}]

ResolverIdle == resolution = NoResolution /\ loaded = NoLoad
LockingIdle ==
    /\ mutexes = [m \in Mutexes |-> Unlocked("std")]
    /\ threads = [t \in Threads |-> Running]
    /\ attempt = NoAttempt

Init ==
    /\ ResolverIdle /\ LockingIdle /\ UpdaterIdle
    /\ \E layout \in Layouts :
          /\ disk = InitDisk(layout.sidecar, layout.twin)
          /\ metas = InitMetas(layout.sidecar, layout.twin)
          /\ tree = InitTree(layout.twin)
    /\ project = InitProject
    /\ uuid = 1
    /\ config \in [rename_instances : BOOLEAN]
    /\ run \in Runs
    /\ ops = 0
    /\ aborted = FALSE
    /\ last = NoCall
    /\ prev = World
    /\ origin = NoOrigin
    /\ repeated = FALSE

\* ----------------------------------------------------------------- inputs

\* The referent of the n-th added snapshot; its children follow it.
NewId(n) == 10 * n

Snap(id, name, class, props, keepUnknowns, children) ==
    [id |-> id, name |-> name, class |-> class, props |-> props,
     meta |-> [MetaNew EXCEPT !.keepUnknowns = keepUnknowns], children |-> children]

Script(id, b) == Snap(id, N(b), "ModuleScript", {"Source"}, FALSE, <<>>)

\* The snapshots the reconciler sends; ids are fresh.
Leaves(id) ==
    {Script(id, b) : b \in {"A", "B", "X", "U?"}} \cup
    {Snap(id, N("B"), "ModuleScript", {"Source"}, TRUE, <<>>),
     Snap(id, N("F"), "Folder", {}, FALSE, <<>>),
     Snap(id, N("B"), "Part", {"Size"}, FALSE, <<>>),
     Snap(id, N("B"), "Camera", {}, FALSE, <<>>)}

Subtrees(id) ==
    {Snap(id, N("B"), "ModuleScript", {"Source"}, FALSE, <<Script(id + 1, "A")>>),
     Snap(id, N("F"), "ModuleScript", {"Source"}, FALSE, <<Script(id + 1, "A")>>),
     Snap(id, N("B"), "Folder", {}, FALSE, <<Script(id + 1, "X")>>),
     Snap(id, N("B"), "Folder", {}, FALSE, <<Script(id + 1, "A"), Script(id + 2, "A")>>)}

\* The snapshots sent under a folder and under a project node.
Few(id) ==
    {Script(id, "A"), Script(id, "U?"),
     Snap(id, N("B"), "Part", {"Size"}, FALSE, <<>>),
     Snap(id, N("B"), "Folder", {}, FALSE, <<Script(id + 1, "X")>>)}

\* <<parent, snapshot>> pairs of the n-th addition.  The last parent is the
\* snapshot added before (the null referent at first), which is in the Tree
\* only if that addition inserted it.
WideAdditions(n) ==
    ({LeafA, Srv} \X (Leaves(NewId(n)) \cup Subtrees(NewId(n)))) \cup
    ({FolderF, Net} \X Few(NewId(n))) \cup
    ({NewId(n - 1)} \X {Script(NewId(n), "A"), Script(NewId(n), "B")}) \cup
    {<<Bare, Script(NewId(n), "A")>>}

DeepAdditions(n) ==
    ({Net} \X {Script(NewId(n), "A"),
               Snap(NewId(n), N("B"), "Folder", {}, FALSE, <<Script(NewId(n) + 1, "A")>>)}) \cup
    {<<Lib, Script(NewId(n), "A")>>, <<Srv, Script(NewId(n), "B")>>,
     <<LeafA, Snap(NewId(n), N("B"), "ModuleScript", {"Source"}, FALSE,
                   <<Script(NewId(n) + 1, "A")>>)>>}

Additions(n) == IF run = "deep" THEN DeepAdditions(n) ELSE WideAdditions(n)

Upd(id, name, class, hasProps, props, hasMeta) ==
    [id |-> id, name |-> name, class |-> class, hasProps |-> hasProps,
     props |-> props, hasMeta |-> hasMeta]

Renames(id) == {Upd(id, N(b), NoClass, FALSE, {}, FALSE) : b \in {"A", "B", "U?"}}

Rewrites(id) ==
    {Upd(id, NoName, NoClass, TRUE, ps, FALSE) : ps \in {{"Source"}, {"Source", "Size"}}} \cup
    {Upd(id, N("B"), NoClass, TRUE, {"Source", "Size"}, FALSE)}

Violations(id) ==
    {Upd(id, NoName, "Camera", FALSE, {}, FALSE),
     Upd(id, NoName, "Part", FALSE, {}, FALSE),
     Upd(id, NoName, NoClass, FALSE, {}, TRUE)}

WideUpdates ==
    UNION {Renames(id) \cup Rewrites(id) : id \in {LeafA, FolderF, NewId(1)}} \cup
    Violations(LeafA) \cup
    {Upd(LeafA, N("X"), NoClass, FALSE, {}, FALSE),
     Upd(LeafA, N("P"), NoClass, FALSE, {}, FALSE),
     Upd(LeafA, N("U?"), "Part", FALSE, {}, FALSE),
     Upd(Bare, NoName, NoClass, TRUE, {"Source"}, FALSE),
     Upd(Net, NoName, "Part", FALSE, {}, FALSE),
     Upd(Net, N("B"), NoClass, TRUE, {"Source", "Size"}, FALSE),
     Upd(Srv, NoName, NoClass, TRUE, {"Source", "Size"}, FALSE)} \cup
    {Upd(id, N("B"), NoClass, FALSE, {}, FALSE) : id \in {Srv, Net, ChildC, ChildX, Cam}}

DeepUpdates ==
    {Upd(Net, N("B"), NoClass, TRUE, {"Source", "Size"}, FALSE),
     Upd(NewId(1), N("B"), NoClass, FALSE, {}, FALSE),
     Upd(Srv, N("B"), NoClass, TRUE, {"Size"}, FALSE),
     Upd(Srv, NoName, NoClass, TRUE, {"Size"}, FALSE),
     Upd(Net, NoName, NoClass, TRUE, {"Size"}, FALSE),
     Upd(NewId(1), N("B"), NoClass, TRUE, {"Size"}, FALSE),
     Upd(LeafA, N("B"), NoClass, FALSE, {}, FALSE),
     Upd(Net, N("B"), "Part", TRUE, {"Size"}, FALSE)}

Updates == IF run = "deep" THEN DeepUpdates ELSE WideUpdates

WideTargets == {Srv, Net, LeafA, FolderF, ChildC, ChildX, Cam, Bare, NewId(1), NewId(1) + 1}
DeepTargets == {NewId(1), NewId(1) + 1, NewId(2)}

Targets == IF run = "deep" THEN DeepTargets ELSE WideTargets

\* ---------------------------------------------------------------- actions

Commit(r) ==
    /\ disk' = r.w.disk
    /\ tree' = r.w.tree
    /\ metas' = r.w.metas
    /\ project' = r.w.project
    /\ uuid' = r.w.uuid
    /\ aborted' = (r.res = "panic")
    /\ ops' = ops + 1
    /\ prev' = World
    /\ UNCHANGED <<config, run, resolver, locking, updater>>

\* What a call finds around it: the configuration, and whether the project
\* file can be written when the call saves the document.
Env(saves) == [rename_instances |-> config.rename_instances, saves |-> saves]

\* Only a call on a Project-sourced instance saves the document.  The
\* project file may have become read-only before the last call of a wide
\* run.
Saves(id) ==
    IF /\ run = "wide" /\ ops + 1 = Limit
       /\ id \in DOMAIN metas /\ metas[id].source.kind = "Project"
    THEN BOOLEAN ELSE {TRUE}

\* The call turned the file-backed instance id into a folder.
Promoted(id, w, new_w) ==
    /\ id \in DOMAIN w.metas
    /\ w.metas[id].source.kind = "Path"
    /\ ~HasEntry(w.metas[id].source, "Folder")
    /\ HasEntry(new_w.metas[id].source, "Folder")

AdditionCall(snapshot, parent, r) ==
    /\ Commit(r)
    /\ repeated' = FALSE
    /\ origin' = IF Promoted(parent, World, r.w)
                 THEN [id |-> parent, meta |-> metas[parent], disk |-> disk]
                 ELSE IF origin.id = parent THEN origin ELSE NoOrigin
    /\ last' = [NoCall EXCEPT !.op = "addition", !.res = r.res, !.id = snapshot.id,
                              !.parent = parent, !.name = snapshot.name,
                              !.class = snapshot.class, !.snapshot = snapshot]

Addition ==
    /\ ~aborted /\ ops < Limit
    /\ \E a \in Additions(ops + 1) : \E saves \in Saves(a[1]) :
          AdditionCall(a[2], a[1], apply_addition(a[2], a[1], World, Env(saves)))

\* The update repeats the call made just before it.
Repeats(update) ==
    /\ last.op = "update" /\ last.res = "ok"
    /\ last.id = update.id /\ last.name = update.name /\ last.class = update.class
    /\ last.hasProps = update.hasProps /\ last.props = update.props
    /\ last.hasMeta = update.hasMeta

UpdateCall(update, r) ==
    /\ Commit(r)
    /\ repeated' = Repeats(update)
    /\ origin' = NoOrigin
    /\ last' = [NoCall EXCEPT !.op = "update", !.res = r.res, !.id = update.id,
                              !.name = update.name, !.class = update.class,
                              !.hasProps = update.hasProps, !.props = update.props,
                              !.hasMeta = update.hasMeta, !.renames = r.renames]

Update ==
    /\ ~aborted /\ ops < Limit
    /\ \E update \in Updates : \E saves \in Saves(update.id) :
          UpdateCall(update, apply_update(update, World, Env(saves)))

RemovalCall(id, r) ==
    /\ Commit(r)
    /\ repeated' = FALSE
    /\ origin' = IF id \in DOMAIN tree /\ tree[id].parent = origin.id
                 THEN origin ELSE NoOrigin
    /\ last' = [NoCall EXCEPT !.op = "removal", !.res = r.res, !.id = id]

Removal ==
    /\ ~aborted /\ ops < Limit
    /\ \E id \in Targets : RemovalCall(id, apply_removal(id, World))

Next == Addition \/ Update \/ Removal

Spec == Init /\ [][Next]_vars

\* ------------------------------------------------------------- properties

\* The paths a Path-backed instance with source path p may occupy: p itself,
\* the main file and the sidecar inside it when p is a directory, and the
\* sidecar next to it when p is a file.
Artifacts(d, p) ==
    {q \in DOMAIN d :
        \/ q = p
        \/ IsDir(d, p) /\ q \in {Join(p, SrcChild), Join(p, DataChild)}
        \/ IsFile(d, p) /\ q = WithFileName(p, Comp(NameOf(Last(p)), "data.json"))}

RelevantPaths(source) == {e[2] : e \in {e \in source.relevant : e[1] # "Project"}}

\* Every relevant entry of the instance exists on disk, and no disk artifact
\* of the instance is missing from its relevant entries.
Consistent(d, ms, id) ==
    \/ id \notin DOMAIN ms
    \/ ms[id].source.kind # "Path"
    \/ /\ \A q \in RelevantPaths(ms[id].source) : Exists(d, q)
       /\ Artifacts(d, ms[id].source.path) \subseteq RelevantPaths(ms[id].source)

\* The instances whose layout a call can touch: its target, and the parent
\* that is promoted or collapsed.
Touched(call, t) ==
    {call.id, call.parent} \cup
    (IF call.id \in DOMAIN t THEN {t[call.id].parent} ELSE {})

\* C1: after a successful apply_* call made in a state where every instance
\* is consistent, the relevant entries of every instance the call touched
\* (the target, a promoted or collapsed parent) are exactly the paths that
\* exist on disk for it.
C1_RelevantMatchesDisk ==
    (/\ last.op # "none" /\ last.res = "ok"
     /\ \A id \in DOMAIN prev.metas : Consistent(prev.disk, prev.metas, id))
    => \A id \in Touched(last, prev.tree) : Consistent(disk, metas, id)

RECURSIVE SnapshotInstances(_)
\* The snapshot and all of its descendants.
SnapshotInstances(snapshot) ==
    {[id |-> snapshot.id, name |-> snapshot.name]} \cup
    UNION {SnapshotInstances(snapshot.children[i]) : i \in DOMAIN snapshot.children}

\* The disk paths a call created or rewrote, and the project nodes it added.
Written(d, e) == {q \in DOMAIN e : q \notin DOMAIN d \/ e[q] # d[q]}
AddedNodes(doc, new_doc) == (DOMAIN new_doc) \ (DOMAIN doc)

\* C2: apply_addition writes nothing for an instance of the snapshot (the
\* top-level instance or a descendant) whose name the filter excludes: no
\* file, directory or sidecar of that name on disk, no node of that name in
\* the project document.
C2_ExcludedNameNeverWritten ==
    last.op = "addition"
    => \A s \in SnapshotInstances(last.snapshot) :
          matches_name(s.name)
          => /\ \A q \in Written(prev.disk, disk) :
                   \A i \in DOMAIN q : NameOf(q[i]) # s.name
             /\ \A np \in AddedNodes(prev.project, project) :
                   \A i \in DOMAIN np : np[i] # s.name

\* The call left the Tree, the disk and the project document as they were.
NothingChanged ==
    /\ tree = prev.tree
    /\ metas = prev.metas
    /\ disk = prev.disk
    /\ project = prev.project

\* The cases in which apply_update must do nothing.
UpdateExcluded(call, t) ==
    \/ call.id \notin DOMAIN t
    \/ matches_name(t[call.id].name)
    \/ matches_class(t[call.id].class)
    \/ (call.name # NoName /\ matches_name(call.name))
    \/ (call.class # NoClass /\ matches_class(call.class))

\* C3: apply_update succeeds and leaves the Tree, the disk and the project
\* document unchanged when the target is absent, when the filter excludes
\* the instance's current name or class, or the incoming name or class.
C3_UpdateSkipIsNoOp ==
    (last.op = "update" /\ UpdateExcluded(last, prev.tree))
    => (last.res = "ok" /\ NothingChanged)

\* An update that carries an excluded incoming name for a present instance.
C3_Witness ==
    /\ last.op = "update" /\ last.res = "ok"
    /\ last.id = LeafA /\ last.name = N("X")
    /\ tree[LeafA].name = N("A")
    /\ Exists(disk, PathA)

\* C4: apply_removal succeeds and leaves the Tree, the disk and the project
\* document unchanged when the id is absent or the filter excludes the
\* instance's name or class.
C4_RemovalSkipIsNoOp ==
    (/\ last.op = "removal"
     /\ \/ last.id \notin DOMAIN prev.tree
        \/ matches_name(prev.tree[last.id].name)
        \/ matches_class(prev.tree[last.id].class))
    => (last.res = "ok" /\ NothingChanged)

\* A removal aimed at an instance whose name is excluded: it stays in the
\* Tree with its file.
C4_Witness ==
    /\ last.op = "removal" /\ last.res = "ok"
    /\ last.id = ChildX
    /\ ChildX \in DOMAIN tree
    /\ Exists(disk, PathX)

\* C5: apply_addition under a parent that is not in the Tree succeeds and
\* changes nothing: no instance inserted, no Meta updated, nothing written.
C5_AdditionWithoutParentIsNoOp ==
    (last.op = "addition" /\ last.parent \notin DOMAIN prev.tree)
    => (last.res = "ok" /\ NothingChanged)

\* An addition of a writable snapshot under an absent parent.
C5_Witness ==
    /\ last.op = "addition" /\ last.res = "ok"
    /\ last.parent \notin DOMAIN prev.tree
    /\ ~matches_name(last.name) /\ ~matches_class(last.class)
    /\ last.id \notin DOMAIN tree

\* A successful apply_removal that took a Path-backed instance out of the
\* Tree, under a Path-backed parent whose Source path is its folder on disk
\* and whose main file lies inside that folder.
RemovedUnderFolder ==
    /\ last.op = "removal" /\ last.res = "ok"
    /\ last.id \in DOMAIN prev.tree /\ last.id \notin DOMAIN tree
    /\ prev.metas[last.id].source.kind = "Path"
    /\ prev.tree[last.id].parent \in DOMAIN tree
    /\ prev.metas[prev.tree[last.id].parent].source.kind = "Path"
    /\ <<"Folder", prev.metas[prev.tree[last.id].parent].source.path>>
          \in prev.metas[prev.tree[last.id].parent].source.relevant
    /\ IsDir(prev.disk, prev.metas[prev.tree[last.id].parent].source.path)
    /\ HasEntry(prev.metas[prev.tree[last.id].parent].source, "File")
    /\ RuleMatchesChild(ScriptRule,
                        GetEntry(prev.metas[prev.tree[last.id].parent].source, "File"))

RemovedParent == prev.tree[last.id].parent

\* The folder of parent p is gone and p is backed by the single file that
\* takes the folder's place, with the sidecar next to it.
Collapsed(p) ==
    LET old == prev.metas[p].source
        folder == old.path
        file == WithFileName(folder, Comp(NameOf(Last(folder)), ScriptRule.ext))
        data == WithFileName(folder, Comp(NameOf(Last(folder)), DataRule.ext))
    IN /\ ~Exists(disk, folder)
       /\ IsFile(disk, file)
       /\ disk[file] = prev.disk[GetEntry(old, "File")]
       /\ metas[p].source.kind = "Path" /\ metas[p].source.path = file
       /\ metas[p].source.relevant =
             {<<"File", file>>} \cup (IF HasEntry(old, "Data") THEN {<<"Data", data>>} ELSE {})
       /\ HasEntry(old, "Data")
             => /\ Exists(disk, data)
                /\ disk[data] = prev.disk[GetEntry(old, "Data")]

CollapsedAgain ==
    /\ origin # NoOrigin
    /\ last.op = "removal" /\ last.res = "ok"
    /\ HasEntry(prev.metas[origin.id].source, "Folder")
    /\ ~HasEntry(metas[origin.id].source, "Folder")

\* C7: a leaf-backed instance that an addition promoted to a folder and
\* that the removals of its children collapsed again is back at its original
\* file path and sidecar location, with the contents and the relevant
\* entries it had and the folder gone.
C7_ExpandCollapseRoundTrip ==
    CollapsedAgain
    => /\ metas[origin.id].source = origin.meta.source
       /\ \A q \in RelevantPaths(origin.meta.source) :
             Exists(disk, q) /\ disk[q] = origin.disk[q]
       /\ ~Exists(disk, prev.metas[origin.id].source.path)

\* A successful apply_addition of a snapshot the filter lets through, under
\* a Path-backed parent whose path is a single file.
AddedUnderLeaf ==
    /\ last.op = "addition" /\ last.res = "ok"
    /\ last.parent \in DOMAIN prev.tree
    /\ ~matches_name(last.name) /\ ~matches_class(last.class)
    /\ prev.metas[last.parent].source.kind = "Path"
    /\ IsFile(prev.disk, prev.metas[last.parent].source.path)

AddedParent == last.parent

\* The folder named like the file of parent p.
SameNamedFolder(p) ==
    WithFileName(prev.metas[p].source.path,
                 Comp(NameOf(Last(prev.metas[p].source.path)), ""))

\* Parent p is backed by the same-named folder: its file and its sidecar
\* lie inside the folder with the contents they had, its Source holds the
\* folder, the new file and the new sidecar, and the old paths are gone.
PromotedInPlace(p) ==
    LET old == prev.metas[p].source
        folder == SameNamedFolder(p)
        file == Locate(ScriptRule, folder, NameOf(Last(old.path)), TRUE)
        data == Locate(DataRule, folder, NameOf(Last(old.path)), TRUE)
    IN /\ IsDir(disk, folder)
       /\ IsFile(disk, file) /\ disk[file] = prev.disk[old.path]
       /\ ~Exists(disk, old.path)
       /\ metas[p].source.kind = "Path" /\ metas[p].source.path = folder
       /\ metas[p].source.relevant =
             {<<"Folder", folder>>, <<"File", file>>} \cup
             (IF HasEntry(old, "Data") THEN {<<"Data", data>>} ELSE {})
       /\ HasEntry(old, "Data")
             => /\ Exists(disk, data)
                /\ disk[data] = prev.disk[GetEntry(old, "Data")]
                /\ ~Exists(disk, GetEntry(old, "Data"))

\* C8: a successful addition under a Path parent whose path is a single
\* file promotes the parent before it writes the child: the parent is backed
\* by the same-named folder, with its file and sidecar inside and the old
\* paths gone, and the child, if it was written, lies inside that folder.
C8_PromotionBeforeChild ==
    AddedUnderLeaf
    => /\ PromotedInPlace(AddedParent)
       /\ last.id \in DOMAIN tree
             => /\ metas[last.id].source.kind = "Path"
                /\ Front(metas[last.id].source.path) = SameNamedFolder(AddedParent)

\* A successful apply_update that carries a name the verify helpers accept,
\* for a Path-backed instance the filter lets through.
RenamedPath ==
    /\ last.op = "update" /\ last.res = "ok"
    /\ last.name # NoName
    /\ ~UpdateExcluded(last, prev.tree)
    /\ prev.metas[last.id].source.kind = "Path"
    /\ verify_name(last.name, prev.metas[last.id], config).ok
    /\ \/ config.rename_instances
       \/ ~Exists(prev.disk,
                  rename_path(prev.metas[last.id].source.path, prev.tree[last.id].name,
                              verify_name(last.name, prev.metas[last.id], config).name))

RenamedLeaf == RenamedPath /\ ~HasEntry(prev.metas[last.id].source, "Folder")

\* The names a rename to name can end at: the safe form of the name, with
\* or without a disambiguating suffix.
NewNames(name) == {<<SafeBase(name[1]), t>> : t \in 0..uuid}

\* path with the name part of its file name replaced.
Renamed(path, name) == WithFileName(path, Comp(name, Last(path)[3]))

\* The leaf source old has become the same source under name n: every File
\* and Data entry was renamed on disk, the path and the entries carry the
\* new name, the main file is there as it was and the old paths are gone.
LeafMovedTo(old, n) ==
    /\ last.renames = Cardinality(old.relevant)
    /\ metas[last.id].source.path = Renamed(old.path, n)
    /\ metas[last.id].source.relevant = {<<e[1], Renamed(e[2], n)>> : e \in old.relevant}
    /\ \A e \in old.relevant :
          /\ ~Exists(disk, e[2])
          /\ e[1] = "File" => /\ Exists(disk, Renamed(e[2], n))
                              /\ disk[Renamed(e[2], n)] = prev.disk[e[2]]

\* C9: a successful apply_update that carries only a new name for a leaf
\* Path-backed instance renames every File and Data entry on disk from the
\* old name to the new one; afterwards the Source's path and its File and
\* Data entries are the new paths and the old paths no longer exist.
C9_LeafRenameMovesEveryEntry ==
    (RenamedLeaf /\ ~last.hasProps)
    => \E n \in NewNames(last.name) : LeafMovedTo(prev.metas[last.id].source, n)

RenamedFolder == RenamedPath /\ HasEntry(prev.metas[last.id].source, "Folder")

\* The folder source old lives under the folder new_path: the Folder entry
\* is new_path, every File and Data entry keeps its file name under it, and
\* every relevant entry exists on disk.
FolderMovedTo(old, new_path) ==
    /\ metas[last.id].source.relevant =
          {IF e[1] = "Folder" THEN <<"Folder", new_path>>
           ELSE <<e[1], Join(new_path, Last(e[2]))>> : e \in old.relevant}
    /\ \A q \in RelevantPaths(metas[last.id].source) : Exists(disk, q)
    /\ ~Exists(disk, GetEntry(old, "Folder"))

\* C10: a successful apply_update that carries only a new name for a
\* folder-backed Path instance makes exactly one disk rename, that of the
\* folder, and rewrites the Folder entry and every File and Data entry to
\* the same file name under the new folder, where every relevant entry
\* exists.
C10_FolderRenameIsOneRename ==
    (RenamedFolder /\ ~last.hasProps)
    => /\ last.renames = 1
       /\ \E n \in NewNames(last.name) :
             FolderMovedTo(prev.metas[last.id].source,
                           Renamed(GetEntry(prev.metas[last.id].source, "Folder"), n))

\* C11: apply_update is idempotent: the same UpdatedSnapshot applied a
\* second time right after a successful first application leaves the disk,
\* the project document and the Tree as the first application left them.
C11_UpdateIsIdempotent ==
    (last.op = "update" /\ last.res = "ok" /\ repeated)
    => /\ disk = prev.disk
       /\ project = prev.project
       /\ tree = prev.tree

\* An apply_update that carries a class or a meta field, for an instance
\* that exists, passes the filter and has a Path or a Project source.
ProtocolViolation ==
    /\ last.op = "update"
    /\ ~UpdateExcluded(last, prev.tree)
    /\ last.class # NoClass \/ last.hasMeta
    /\ prev.metas[last.id].source.kind \in {"Path", "Project"}

\* C12: an apply_update that carries a class or a meta field for an
\* existing instance that passes the filter is fatal, for a Path and for a
\* Project source: the call returns neither Ok nor Err.
C12_ClassOrMetaUpdateIsFatal == ProtocolViolation => last.res = "panic"

\* The instance a call mutates: the parent of an addition, the target of an
\* update or a removal.
Mutated == IF last.op = "addition" THEN last.parent ELSE last.id

\* A call that reaches the dispatch on the Source of an instance that has
\* none: the instance exists and the filter lets the call through.
SourcelessCall ==
    /\ last.op # "none"
    /\ Mutated \in DOMAIN prev.tree
    /\ prev.metas[Mutated].source.kind = "None"
    /\ last.op = "addition" => ~matches_name(last.name) /\ ~matches_class(last.class)
    /\ last.op = "update" => ~UpdateExcluded(last, prev.tree)
    /\ last.op = "removal" => /\ ~matches_name(prev.tree[last.id].name)
                              /\ ~matches_class(prev.tree[last.id].class)

\* C13: mutating an instance without a source is fatal in apply_addition
\* (sourceless parent), apply_update and apply_removal: the process aborts
\* and nothing was written to disk or changed in the Tree before.
C13_SourcelessIsFatal ==
    SourcelessCall => (last.res = "panic" /\ aborted /\ NothingChanged)

\* The removal of the sourceless instance has aborted the process.
C13_Witness ==
    /\ SourcelessCall
    /\ last.op = "removal" /\ last.id = Bare
    /\ last.res = "panic" /\ aborted
    /\ Bare \in DOMAIN tree

\* An apply_removal of an existing Project-sourced instance that passes
\* the filter, whose node is not in the child map of its parent node in the
\* project document on disk (or whose parent node is not in the document).
RemovedNodeAbsent ==
    /\ last.op = "removal"
    /\ last.id \in DOMAIN prev.tree
    /\ ~matches_name(prev.tree[last.id].name)
    /\ ~matches_class(prev.tree[last.id].class)
    /\ prev.metas[last.id].source.kind = "Project"
    /\ Exists(prev.disk, prev.metas[last.id].source.file)
    /\ Append(Front(prev.metas[last.id].source.nodePath), prev.metas[last.id].source.name)
          \notin DOMAIN prev.project

RemovedPathBacked ==
    /\ last.op = "removal" /\ last.res = "ok"
    /\ last.id \in DOMAIN prev.tree
    /\ ~matches_name(prev.tree[last.id].name)
    /\ ~matches_class(prev.tree[last.id].class)
    /\ prev.metas[last.id].source.kind = "Path"

Untouched(path) ==
    Exists(prev.disk, path) => (Exists(disk, path) /\ disk[path] = prev.disk[path])

\* C15: after a successful apply_removal of a Path-backed instance, every
\* relevant entry of its Source that is not a Project entry and whose path
\* the filter does not exclude no longer exists on disk; Project entries and
\* filter-excluded paths are left untouched.
C15_RelevantEntriesDeleted ==
    RemovedPathBacked
    => \A e \in prev.metas[last.id].source.relevant :
          IF e[1] # "Project" /\ ~matches_path(e[2])
          THEN ~Exists(disk, e[2])
          ELSE Untouched(e[2])

\* The last call removed an instance that existed, passed the filter and
\* had a Path or a Project source.
RemovalReached ==
    /\ last.op = "removal"
    /\ last.id \in DOMAIN prev.tree
    /\ ~matches_name(prev.tree[last.id].name)
    /\ ~matches_class(prev.tree[last.id].class)
    /\ prev.metas[last.id].source.kind \in {"Path", "Project"}

RECURSIVE Breadcrumbs(_, _)
\* The snapshot and its descendants, each with the breadcrumb of its node
\* below node_path.
Breadcrumbs(snapshot, node_path) ==
    {[snap |-> snapshot, np |-> Append(node_path, snapshot.name)]} \cup
    UNION {Breadcrumbs(snapshot.children[i], Append(node_path, snapshot.name)) :
              i \in DOMAIN snapshot.children}

\* The last call added a snapshot under a Project-sourced parent whose node
\* has no custom path, and succeeded.
AddedUnderNode ==
    /\ last.op = "addition" /\ last.res = "ok"
    /\ last.parent \in DOMAIN prev.tree
    /\ ~matches_name(last.name) /\ ~matches_class(last.class)
    /\ prev.metas[last.parent].source.kind = "Project"
    /\ prev.metas[last.parent].source.node.path = NoPath

\* The node of the added instance has its class and serialized properties;
\* a descendant has a node at its breadcrumb.
NodeWritten(b) ==
    /\ b.np \in DOMAIN project
    /\ b.snap.id = last.id
       => /\ project[b.np].class = b.snap.class
          /\ project[b.np].props =
                serialize_properties(b.snap.class, validate_properties(b.snap.props))
    /\ b.snap.id \in DOMAIN metas
    /\ metas[b.snap.id].source.kind = "Project"
    /\ metas[b.snap.id].source.nodePath = b.np

\* C17: after a successful apply_addition under a Project-sourced parent
\* without a custom path, the project document holds, at the breadcrumb
\* parent.node_path + [name], a node with the class and the serialized
\* properties of the added instance, every descendant of the snapshot has
\* its node at the corresponding breadcrumb below it, and every inserted
\* instance has a Project Source with that breadcrumb as node_path.
C17_ProjectAdditionWritesNodes ==
    AddedUnderNode
    => \A b \in Breadcrumbs(last.snapshot, prev.metas[last.parent].source.nodePath) :
          NodeWritten(b)

\* A snapshot with properties and a child has been added under a node.
C17_Witness ==
    /\ AddedUnderNode
    /\ last.snapshot.children # <<>>
    /\ \E b \in Breadcrumbs(last.snapshot, prev.metas[last.parent].source.nodePath) :
          /\ Len(b.np) = Len(prev.metas[last.parent].source.nodePath) + 2
          /\ project[b.np].props # {}
          /\ b.np \notin DOMAIN prev.project

\* The last call was an update with properties and a new name for an
\* instance with a Project source, and reached the Project branch.
NodeUpdateCall ==
    /\ last.op = "update"
    /\ ~UpdateExcluded(last, prev.tree)
    /\ prev.metas[last.id].source.kind = "Project"
    /\ last.hasProps
    /\ last.name # NoName /\ last.name # prev.metas[last.id].source.name

OldBreadcrumb == prev.metas[last.id].source.nodePath
NewBreadcrumb == Append(Front(OldBreadcrumb), last.name)

NodeProperties ==
    IF prev.metas[last.id].source.node.path # NoPath THEN {}
    ELSE serialize_properties(prev.tree[last.id].class, validate_properties(last.props))

NodePropertiesCall ==
    /\ last.op = "update" /\ last.res = "ok"
    /\ ~UpdateExcluded(last, prev.tree)
    /\ prev.metas[last.id].source.kind = "Project"
    /\ last.hasProps

NodeBreadcrumb == IF last.name = NoName THEN OldBreadcrumb ELSE NewBreadcrumb
CustomPath == prev.metas[last.id].source.node.path

\* The properties are in the sidecar of the folder at the custom path.
WrittenAtCustomPath ==
    /\ Exists(disk, Join(CustomPath, DataChild))
    /\ disk[Join(CustomPath, DataChild)].props = validate_properties(last.props)

AddedAtCustomPath ==
    /\ last.op = "addition" /\ last.res = "ok"
    /\ last.parent \in DOMAIN prev.tree
    /\ ~matches_name(last.name) /\ ~matches_class(last.class)
    /\ prev.metas[last.parent].source.kind = "Project"
    /\ prev.metas[last.parent].source.node.path # NoPath

\* The relevant entries of the Source that the Path logic returns for the
\* parent when the child is realized at the custom path.
PathLogicRelevant ==
    add_non_project_instances(last.parent, prev.metas[last.parent].source.node.path,
        [last.snapshot EXCEPT !.props = validate_properties(@)],
        prev.metas[last.parent], prev, config).source.relevant

\* C20: after a successful apply_addition under a Project-sourced parent
\* whose node has a custom path, the parent's Source is still of kind
\* Project with the same name, project file, node and node_path; only its
\* relevant entries are replaced, by those that result from realizing the
\* child through the Path logic at the custom path.
C20_CustomPathParentStaysProject ==
    AddedAtCustomPath
    => /\ metas[last.parent].source.kind = "Project"
       /\ metas[last.parent].source.name = prev.metas[last.parent].source.name
       /\ metas[last.parent].source.file = prev.metas[last.parent].source.file
       /\ metas[last.parent].source.node = prev.metas[last.parent].source.node
       /\ metas[last.parent].source.nodePath = prev.metas[last.parent].source.nodePath
       /\ metas[last.parent].source.relevant = PathLogicRelevant

\* A child has been added under the node Lib, whose custom path is a file:
\* the file became a folder and the relevant entries of the node changed.
C20_Witness ==
    /\ AddedAtCustomPath
    /\ last.id \in DOMAIN tree
    /\ metas[last.id].source.kind = "Path"
    /\ Exists(disk, metas[last.id].source.path)
    /\ metas[last.parent].source.relevant # prev.metas[last.parent].source.relevant
    /\ HasEntry(metas[last.parent].source, "Folder")

\* The last call added a snapshot under a Path parent and inserted it.
AddedUnderPath ==
    /\ last.op = "addition" /\ last.res = "ok"
    /\ last.parent \in DOMAIN prev.tree
    /\ ~matches_name(last.name) /\ ~matches_class(last.class)
    /\ prev.metas[last.parent].source.kind = "Path"
    /\ last.id \in DOMAIN tree

AddedSource == metas[last.id].source

\* A single main file, no Folder entry.
WrittenAsLeaf ==
    /\ ~HasEntry(AddedSource, "Folder")
    /\ HasEntry(AddedSource, "File")
    /\ IsFile(disk, GetEntry(AddedSource, "File"))

\* A directory that contains the main file.
WrittenAsDirectory ==
    /\ HasEntry(AddedSource, "Folder")
    /\ IsDir(disk, GetEntry(AddedSource, "Folder"))
    /\ HasEntry(AddedSource, "File")
    /\ IsFile(disk, GetEntry(AddedSource, "File"))
    /\ Front(GetEntry(AddedSource, "File")) = GetEntry(AddedSource, "Folder")

\* Every child of the snapshot that was written lies in the directory.
ChildrenInside ==
    \A i \in DOMAIN last.snapshot.children :
        LET c == last.snapshot.children[i].id
        IN (c \in DOMAIN metas /\ metas[c].source.kind = "Path")
           => /\ HasEntry(AddedSource, "Folder")
              /\ IsDir(disk, GetEntry(AddedSource, "Folder"))
              /\ Front(metas[c].source.path) = GetEntry(AddedSource, "Folder")

\* C21: under a Path parent, apply_addition writes an added instance
\* without children as a leaf (a single main file, a Source without a Folder
\* entry) and an added instance with children as a directory that contains
\* its main file, and every child of the snapshot is written inside that
\* directory.
C21_LeafOrDirectory ==
    AddedUnderPath
    => /\ last.snapshot.children = <<>> => WrittenAsLeaf
       /\ last.snapshot.children # <<>> => (WrittenAsDirectory /\ ChildrenInside)

\* The place of the sidecar of a Path-backed instance: inside its folder,
\* or beside its file.
SidecarPath(source) ==
    IF HasEntry(source, "Data") THEN GetEntry(source, "Data")
    ELSE IF HasEntry(source, "Folder") THEN Join(GetEntry(source, "Folder"), DataChild)
    ELSE WithFileName(source.path, Comp(NameOf(Last(source.path)), "data.json"))

\* What write_data has to store for the instance: the class when there is
\* no main file and the class is not Folder, the properties that the main
\* file does not hold, keepUnknowns and originalName of the Meta.
SidecarContent(instance, meta) ==
    DataEntry(IF ~HasMiddleware(instance.class) /\ instance.class # "Folder"
              THEN instance.class ELSE NoClass,
              IF HasMiddleware(instance.class) THEN instance.props \ MainProps
              ELSE instance.props,
              meta.keepUnknowns, meta.originalName)

\* The Source of the instance describes what is on disk: its path is its
\* folder or its main file, named after the instance, and its entries are
\* the artifacts of the instance.
WellFormed(d, t, ms, id) ==
    /\ Consistent(d, ms, id)
    /\ ms[id].source.path \in RelevantPaths(ms[id].source)
    /\ Last(ms[id].source.path)[1] = SafeBase(t[id].name[1])
    /\ HasEntry(ms[id].source, "File")
       => GetEntry(ms[id].source, "File") \in
             {ms[id].source.path, Join(ms[id].source.path, SrcChild)}

\* The last call wrote the sidecar of the instance last.id with write_data:
\* an addition under a Path parent that inserted the instance, or an update
\* of the properties alone of a Path-backed instance.
WroteData ==
    /\ last.res = "ok"
    /\ \/ AddedUnderPath
       \/ /\ last.op = "update" /\ last.hasProps /\ last.name = NoName
          /\ ~UpdateExcluded(last, prev.tree)
          /\ prev.metas[last.id].source.kind = "Path"
          /\ ~matches_path(prev.metas[last.id].source.path)
          /\ WellFormed(prev.disk, prev.tree, prev.metas, last.id)
    /\ ~matches_path(SidecarPath(metas[last.id].source))

\* C22: after a successful write_data call the sidecar exists on disk if
\* and only if one of className, properties, keepUnknowns, originalName is
\* non-default: when all are default no sidecar is left at that path and the
\* caller's Source has no Data entry; otherwise the Source has the Data
\* entry of the sidecar.
C22_SidecarIffNonDefault ==
    WroteData
    => /\ Exists(disk, SidecarPath(metas[last.id].source))
          <=> ~DataIsDefault(SidecarContent(tree[last.id], metas[last.id]))
       /\ HasEntry(metas[last.id].source, "Data")
          <=> Exists(disk, SidecarPath(metas[last.id].source))

\* A sidecar that was on disk has been removed by a write of all-default
\* data, and the Source lost its Data entry.
C22_Witness ==
    /\ WroteData
    /\ last.op = "update"
    /\ HasEntry(prev.metas[last.id].source, "Data")
    /\ Exists(prev.disk, GetEntry(prev.metas[last.id].source, "Data"))
    /\ ~Exists(disk, GetEntry(prev.metas[last.id].source, "Data"))
    /\ ~HasEntry(metas[last.id].source, "Data")

\* The name under which the added instance is stored on disk.
StoredName == NameOf(Last(AddedSource.path))

\* The metadata of the added snapshot that its main file cannot hold.
AddedSidecar ==
    DataEntry(IF ~HasMiddleware(last.class) /\ last.class # "Folder"
              THEN last.class ELSE NoClass,
              IF HasMiddleware(last.class)
              THEN validate_properties(last.snapshot.props) \ MainProps
              ELSE validate_properties(last.snapshot.props),
              last.snapshot.meta.keepUnknowns,
              IF StoredName # last.name THEN last.name ELSE NoName)

\* C23: the sidecar written for an added instance holds exactly the
\* metadata that the main file cannot hold: the properties left over by
\* the middleware, keepUnknowns when it is true, originalName when the name
\* on disk differs from the instance name, className when the instance has
\* no main file and its class is not Folder; with nothing of this to store
\* there is no sidecar.
C23_SidecarHoldsTheRest ==
    (AddedUnderPath /\ ~matches_path(SidecarPath(AddedSource)))
    => IF DataIsDefault(AddedSidecar)
       THEN ~Exists(disk, SidecarPath(AddedSource))
       ELSE /\ Exists(disk, SidecarPath(AddedSource))
            /\ disk[SidecarPath(AddedSource)] = AddedSidecar

\* ------------------------------------------------------------- resolution

\* An f64 is counted in ticks of 1e-7, truncated toward zero, so that the
\* seventh decimal, which truncate_number drops, can be told from the sixth.
Micro == 1000000
Tick == 10 * Micro

trunc(number, unit) ==
    IF number >= 0 THEN (number \div unit) * unit ELSE -(((-number) \div unit) * unit)

\* truncate_number of a finite number.
truncate_number(number) == trunc(number, Tick \div Micro)

\* `as f32`: the nearest f32. A multiple of 1/128 of the size used here is
\* an f32; the other numbers of the model are listed with their nearest f32.
Nearest32 ==
    {<<7 * (Tick \div 10), 6999999>>, <<-7 * (Tick \div 10), -6999999>>, <<5, 4>>}
as_f32(number) ==
    IF number % (Tick \div 128) = 0 \/ number \in {pair[2] : pair \in Nearest32} THEN number
    ELSE (CHOOSE pair \in Nearest32 : pair[1] = number)[2]

\* `as i32`, `as i64`, `as i16`: toward zero (the numbers used stay in range).
as_int(number) == trunc(number, Tick)
\* `as u8`, `as u16`: toward zero, negative numbers saturate at 0.
as_unsigned(number) == IF number < 0 THEN 0 ELSE trunc(number, Tick)

\* An integer from 2^53 on, beyond the 53 bits of the mantissa of an f64,
\* cannot be counted in ticks: 2^53 + above is written Huge + above, and
\* the numbers counted in ticks stay below Huge.
Huge == 2100 * Micro
Wide(above) == Huge + above
IsWide(number) == number >= Huge

\* `n as f64` of an i64: exact up to 2^53. From 2^53 to 2^54 the f64 are the
\* even integers, and an odd integer goes to the neighbour with the even
\* mantissa.
i64_as_f64(n) ==
    IF ~IsWide(n) THEN n * Tick
    ELSE IF (n - Huge) % 2 = 0 THEN n
    ELSE IF (n - Huge) % 4 = 1 THEN n - 1 ELSE n + 1

\* `x as i64` of an f64: toward zero; an f64 from 2^53 on is an integer.
f64_as_i64(x) == IF IsWide(x) THEN x ELSE as_int(x) \div Tick

Value(kind, val) == [form |-> "Ambiguous", kind |-> kind, val |-> val]
Variant(type, val) == [type |-> type, val |-> val]
FullyQualified(variant) == [form |-> "FullyQualified", kind |-> variant.type, val |-> variant.val]
NoVariant == Variant("None", 0)
NoExamples == [listed |-> <<>>, last |-> "", more |-> 0]
Resolved(variant) == [ok |-> TRUE, variant |-> variant, error |-> "", examples |-> NoExamples]
Failed(error) == [ok |-> FALSE, variant |-> NoVariant, error |-> error, examples |-> NoExamples]

\* The member names an enum can have, in lexicographic order, with the
\* number of each.
MaxItems == 7
ItemNames ==
    <<"Brick", "Concrete", "Glass", "Granite", "Ice", "Marble", "Metal", "Plastic", "Wood">>
ItemPool == {ItemNames[i] : i \in 1..MaxItems}
ItemId(name) == 255 + CHOOSE i \in 1..Len(ItemNames) : ItemNames[i] = name
Sorted(names) == SelectSeq(ItemNames, LAMBDA name : name \in names)

\* The reflection database: class Sample under class Instance, with one
\* property for each data type, named after it, and the enum Material with
\* the given members.
ValueTypes ==
    {"Axes", "BinaryString", "Bool", "BrickColor", "CFrame", "Color3", "Color3uint8",
     "ColorSequence", "Content", "Faces", "Float32", "Float64", "Font", "Int32", "Int64",
     "MaterialColors", "NumberRange", "NumberSequence", "OptionalCFrame",
     "PhysicalProperties", "Ray", "Rect", "Ref", "Region3", "Region3int16", "SharedString",
     "String", "UDim", "UDim2", "Vector2", "Vector2int16", "Vector3", "Vector3int16"}
InstanceProperties == {"Attributes", "Tags"}
NoDescriptor == [type |-> "None", variant |-> "", items |-> {}]
EnumDescriptor(items) == [type |-> "Enum", variant |-> "", items |-> items]
ValueDescriptor(variant) == [type |-> "Value", variant |-> variant, items |-> {}]
Superclass(class) == IF class = "Sample" THEN "Instance" ELSE ""
PropertiesOf(class, items, property) ==
    IF class = "Sample" /\ property = "Material" THEN EnumDescriptor(items)
    ELSE IF class = "Sample" /\ property = "Style" THEN [EnumDescriptor({}) EXCEPT !.type = "UnknownEnum"]
    ELSE IF class = "Sample" /\ property \in ValueTypes THEN ValueDescriptor(property)
    ELSE IF class = "Instance" /\ property \in InstanceProperties THEN ValueDescriptor(property)
    ELSE NoDescriptor

RECURSIVE find_descriptor(_, _, _)
find_descriptor(class, property, items) ==
    IF class \notin {"Sample", "Instance"} THEN NoDescriptor
    ELSE IF PropertiesOf(class, items, property) # NoDescriptor
         THEN PropertiesOf(class, items, property)
    ELSE IF Superclass(class) = "" THEN NoDescriptor
    ELSE find_descriptor(Superclass(class), property, items)

Min(a, b) == IF a < b THEN a ELSE b

list_examples_Uncapped(values) ==
    LET length == Len(values) - 1 IN
    [listed |-> SubSeq(values, 1, length),
     last |-> IF Len(values) > 5 THEN "" ELSE values[Len(values)],
     more |-> IF Len(values) > 5 THEN Len(values) - length ELSE 0]

\* list_examples of a sorted, non-empty list: the names before "or", the
\* name after it, or the number of names that "or .. more" stands for.
list_examples(values) ==
    LET length == Min(Len(values) - 1, 5) IN
    [listed |-> SubSeq(values, 1, length),
     last |-> IF Len(values) > 5 THEN "" ELSE values[Len(values)],
     more |-> IF Len(values) > 5 THEN Len(values) - length ELSE 0]

BitOr_Added(bits, flag) == bits + flag

\* bits |= flag
BitOr(bits, flag) == IF (bits \div flag) % 2 = 1 THEN bits ELSE bits + flag

AxisBit(axis) == CASE axis = "X" -> 1 [] axis = "Y" -> 2 [] axis = "Z" -> 4 [] OTHER -> 0
FaceBit(face) ==
    CASE face = "Right" -> 1 [] face = "Top" -> 2 [] face = "Back" -> 4
      [] face = "Left" -> 8 [] face = "Bottom" -> 16 [] face = "Front" -> 32 [] OTHER -> 0

FlagBit(type, name) == IF type = "Axes" THEN AxisBit(name) ELSE FaceBit(name)

\* The loop over the names of an axis set or a face set; 0 - 1 stands for
\* the bail! at the first name that is no flag.
RECURSIVE FlagBits(_, _, _, _)
FlagBits(type, names, i, bits) ==
    IF i > Len(names) THEN bits
    ELSE IF FlagBit(type, names[i]) = 0 THEN 0 - 1
    ELSE FlagBits(type, names, i + 1, BitOr(bits, FlagBit(type, names[i])))

BrickColors == {<<1, "White">>, <<21, "Bright red">>, <<194, "Medium stone grey">>}
Units(number) == number \div Tick
Each(array, Cast(_)) == [i \in 1..Len(array) |-> Cast(array[i])]
F32s(array) == Each(array, as_f32)
I16s(array) == Each(array, LAMBDA number : Units(as_int(number)))
U8s(array) == Each(array, LAMBDA number : Units(as_unsigned(number)))

VariantOf(unresolved) == Variant(unresolved.kind, unresolved.val)

resolve_unambiguous(unresolved) ==
    IF unresolved.form = "FullyQualified" THEN Resolved(VariantOf(unresolved))
    ELSE CASE unresolved.kind = "Bool" -> Resolved(Variant("Bool", unresolved.val))
           [] unresolved.kind = "Number" -> Resolved(Variant("Float64", unresolved.val))
           [] unresolved.kind = "String" -> Resolved(Variant("String", unresolved.val))
           [] OTHER -> Failed("Cannot unambiguously resolve the value")

\* The attributes of a generic object.
ResolveObject(object) ==
    IF \E key \in DOMAIN object : ~resolve_unambiguous(object[key]).ok
    THEN Failed("Cannot unambiguously resolve the value")
    ELSE Resolved(Variant("Attributes",
                          [key \in DOMAIN object |-> resolve_unambiguous(object[key]).variant]))

\* Axes::from_bits and Faces::from_bits, with the empty set for bits that
\* are no flags.
AllBits(type) == IF type = "Axes" THEN 7 ELSE 63
from_bits(type, bits) == IF bits \in 0..AllBits(type) THEN bits ELSE 0

ResolveFlags(type, names) ==
    IF FlagBits(type, names, 1, 0) < 0
    THEN Failed(IF type = "Axes" THEN "invalid axis" ELSE "invalid face")
    ELSE Resolved(Variant(type, from_bits(type, FlagBits(type, names, 1, 0))))

ResolveBrickColor(value) ==
    LET found == IF value.kind = "Number"
                 THEN {pair \in BrickColors : pair[1] = Units(as_unsigned(value.val))}
                 ELSE {pair \in BrickColors : pair[2] = value.val}
    IN IF found = {} THEN Failed("not valid BrickColor")
       ELSE Resolved(Variant("BrickColor", (CHOOSE pair \in found : TRUE)[1]))

ResolveCFrame(cf) ==
    Resolved(Variant("CFrame",
        [position |-> F32s(SubSeq(cf, 1, 3)),
         orientation |-> <<F32s(SubSeq(cf, 4, 6)), F32s(SubSeq(cf, 7, 9)),
                           F32s(SubSeq(cf, 10, 12))>>]))

ResolveUDim(udim) == <<as_f32(udim[1]), Units(as_int(udim[2]))>>

\* The arms of DataType::Value.
ResolveValue(variant, value) ==
    LET kind == value.kind
        val == value.val
    IN
    CASE variant = "Attributes" /\ kind = "Attributes" -> Resolved(Variant("Attributes", val))
      [] variant = "Attributes" /\ kind = "Object" -> ResolveObject(val)
      [] variant \in {"Axes", "Faces"} /\ kind = "StringArray" -> ResolveFlags(variant, val)
      [] variant = "BinaryString" /\ kind = "String" ->
            Resolved(Variant("BinaryString", [bytes |-> val]))
      [] variant = "Bool" /\ kind = "Bool" -> Resolved(Variant("Bool", val))
      [] variant = "BrickColor" /\ kind \in {"Number", "String"} -> ResolveBrickColor(value)
      [] variant \in {"CFrame", "OptionalCFrame"} /\ kind = "Array12" -> ResolveCFrame(val)
      [] variant = "Color3" /\ kind = "Array3" -> Resolved(Variant("Color3", F32s(val)))
      [] variant = "Color3uint8" /\ kind = "Array3" -> Resolved(Variant("Color3uint8", U8s(val)))
      [] variant = "ColorSequence" /\ kind = "ColorSequence" ->
            Resolved(Variant("ColorSequence", val))
      [] variant = "Content" /\ kind = "String" -> Resolved(Variant("Content", [uri |-> val]))
      [] variant = "Float32" /\ kind = "Number" -> Resolved(Variant("Float32", as_f32(val)))
      [] variant = "Float64" /\ kind = "Number" -> Resolved(Variant("Float64", val))
      [] variant = "Font" /\ kind = "Font" -> Resolved(Variant("Font", val))
      [] variant = "Int32" /\ kind = "Number" -> Resolved(Variant("Int32", Units(as_int(val))))
      [] variant = "Int64" /\ kind = "Number" -> Resolved(Variant("Int64", f64_as_i64(val)))
      [] variant = "MaterialColors" /\ kind = "MaterialColors" ->
            Resolved(Variant("MaterialColors", val))
      [] variant = "NumberRange" /\ kind = "Array2" -> Resolved(Variant("NumberRange", F32s(val)))
      [] variant = "NumberSequence" /\ kind = "NumberSequence" ->
            Resolved(Variant("NumberSequence", [keypoints |-> val]))
      [] variant = "PhysicalProperties" /\ kind = "PhysicalProperties" ->
            Resolved(Variant("PhysicalProperties", val))
      [] variant = "Ray" /\ kind = "Ray" -> Resolved(Variant("Ray", val))
      [] variant = "Rect" /\ kind = "Array2Array2" ->
            Resolved(Variant("Rect", <<F32s(val[1]), F32s(val[2])>>))
      [] variant = "Region3" /\ kind = "Array3Array2" ->
            Resolved(Variant("Region3", <<F32s(val[1]), F32s(val[2])>>))
      [] variant = "Region3int16" /\ kind = "Array3Array2" ->
            Resolved(Variant("Region3int16", <<I16s(val[1]), I16s(val[2])>>))
      [] variant \in {"SharedString", "String"} /\ kind = "String" ->
            Resolved(Variant("String", val))
      [] variant = "Tags" /\ kind = "StringArray" -> Resolved(Variant("Tags", val))
      [] variant = "UDim" /\ kind = "Array2" -> Resolved(Variant("UDim", ResolveUDim(val)))
      [] variant = "UDim2" /\ kind = "Array2Array2" ->
            Resolved(Variant("UDim2", <<ResolveUDim(val[1]), ResolveUDim(val[2])>>))
      [] variant = "Vector2" /\ kind = "Array2" -> Resolved(Variant("Vector2", F32s(val)))
      [] variant = "Vector2int16" /\ kind = "Array2" ->
            Resolved(Variant("Vector2int16", I16s(val)))
      [] variant = "Vector3" /\ kind = "Array3" -> Resolved(Variant("Vector3", F32s(val)))
      [] variant = "Vector3int16" /\ kind = "Array3" ->
            Resolved(Variant("Vector3int16", I16s(val)))
      [] OTHER -> Failed("Wrong type of value")

\* The arm of DataType::Enum.
ResolveEnum(items, value) ==
    IF value.kind = "String" /\ value.val \in items
    THEN Resolved(Variant("Enum", ItemId(value.val)))
    ELSE [Failed("Invalid value") EXCEPT !.examples = list_examples(Sorted(items))]

\* AmbiguousValue::resolve
resolve_ambiguous(value, class, property, items) ==
    LET descriptor == find_descriptor(class, property, items) IN
    CASE descriptor.type = "None" -> Failed("Unknown property")
      [] descriptor.type = "UnknownEnum" -> Failed("Unknown enum")
      [] descriptor.type = "Enum" -> ResolveEnum(descriptor.items, value)
      [] descriptor.type = "Value" -> ResolveValue(descriptor.variant, value)
      [] OTHER -> Failed("Unknown data type")

\* UnresolvedValue::resolve
resolve(unresolved, class, property, items) ==
    IF unresolved.form = "FullyQualified" THEN Resolved(VariantOf(unresolved))
    ELSE resolve_ambiguous(unresolved, class, property, items)

from_variant_AllQualified(variant, class, property, items) == FullyQualified(variant)

\* UnresolvedValue::from_variant
from_variant(variant, class, property, items) ==
    LET descriptor == find_descriptor(class, property, items)
        val == variant.val
    IN
    CASE variant.type = "Enum" ->
            IF descriptor.type = "Enum" /\ \E name \in descriptor.items : ItemId(name) = val
            THEN Value("String", CHOOSE name \in descriptor.items : ItemId(name) = val)
            ELSE FullyQualified(variant)
      [] variant.type = "Bool" -> Value("Bool", val)
      [] variant.type \in {"Float32", "Float64"} -> Value("Number", val)
      [] variant.type = "Int32" -> Value("Number", val * Tick)
      [] variant.type = "Int64" -> Value("Number", i64_as_f64(val))
      [] variant.type = "String" -> Value("String", val)
      [] variant.type = "Tags" -> Value("StringArray", val)
      [] variant.type = "Content" -> Value("String", val.uri)
      [] variant.type \in {"Vector2", "Vector3", "Color3"} ->
            Value(IF Len(val) = 2 THEN "Array2" ELSE "Array3", val)
      [] variant.type = "CFrame" ->
            Value("Array12", val.position \o val.orientation[1] \o val.orientation[2]
                             \o val.orientation[3])
      [] variant.type \in {"Attributes", "Font", "MaterialColors"} -> Value(variant.type, val)
      [] OTHER -> FullyQualified(variant)

\* ------------------------------------------------------ resolution: inputs

MaxLen == 3
Classes == {"Sample", "Folder", "Instance", "Nothing"}
Properties == ValueTypes \cup InstanceProperties \cup {"Material", "Style", "Missing"}
Kinds ==
    {"Bool", "String", "StringArray", "Number", "Object", "Array2", "Array3", "Array4",
     "Array12", "Array2Array2", "Array3Array2", "Attributes", "Font", "MaterialColors",
     "ColorSequence", "NumberSequence", "PhysicalProperties", "Ray"}

Numbers ==
    {0, Tick, 3 * (Tick \div 2), -3 * (Tick \div 2), 7 * (Tick \div 10), 5, 21 * Tick,
     200 * Tick}
Components == {0, 3 * (Tick \div 2), -3 * (Tick \div 2), 7 * (Tick \div 10)}
Strings == {"", "X", "White", "Plastic", "plastic"}
AxisNames == {"X", "Y", "Z"}
FaceNames == {"Right", "Top", "Back", "Left", "Bottom", "Front"}
SeqsUpTo(S, n) == UNION {[1..k -> S] : k \in 0..n}
StringArrays(property) ==
    CASE property = "Axes" -> SeqsUpTo(AxisNames \cup {"x"}, MaxLen)
      [] property = "Faces" -> SeqsUpTo(FaceNames \cup {"X"}, MaxLen)
      [] OTHER -> {<<>>, <<"X">>, <<"a", "b">>, <<"b", "a", "a">>}
IdentityCFrame == <<0, 0, 0, Tick, 0, 0, 0, Tick, 0, 0, 0, Tick>>
PairsOf(arrays) == {<<a, b>> : a \in arrays, b \in arrays}

\* Generic objects: one whose values all resolve unambiguously, one with a
\* value that does not, and the empty one.
Objects ==
    <<[a |-> Value("Bool", TRUE), b |-> Value("Number", Tick)],
      [a |-> Value("String", "x"), b |-> Value("StringArray", <<"x">>)],
      [key \in {} |-> 0]>>

\* The choices for a value of the kind; an object is chosen by its index.
Payloads(kind, property) ==
    CASE kind = "Bool" -> BOOLEAN
      [] kind = "String" -> IF property = "Material" THEN ItemPool \cup {"plastic"} ELSE Strings
      [] kind = "StringArray" -> StringArrays(property)
      [] kind = "Number" -> Numbers
      [] kind = "Object" -> 1..Len(Objects)
      [] kind = "Array2" -> [1..2 -> Components]
      [] kind = "Array3" -> [1..3 -> Components]
      [] kind = "Array4" -> {<<0, 0, 0, Tick>>}
      [] kind = "Array12" -> {IdentityCFrame, [IdentityCFrame EXCEPT ![1] = 7 * (Tick \div 10)]}
      [] kind = "Array2Array2" ->
            PairsOf({<<0, 0>>, <<3 * (Tick \div 2), Tick>>, <<7 * (Tick \div 10), -3 * (Tick \div 2)>>})
      [] kind = "Array3Array2" ->
            PairsOf({<<0, 0, 0>>, <<3 * (Tick \div 2), 7 * (Tick \div 10), -3 * (Tick \div 2)>>})
      [] kind = "Attributes" -> {[a |-> Variant("Bool", TRUE)]}
      [] OTHER -> {"value"}
Payload(kind, choice) == IF kind = "Object" THEN Objects[choice] ELSE choice

DefaultItems == {"Plastic", "Wood"}
ItemSets(class, property) ==
    IF class = "Sample" /\ property = "Material" THEN SUBSET ItemPool \ {{}}
    ELSE {DefaultItems}

\* --------------------------------------------------- resolution: actions

NoValue == Value("None", 0)

ResolveCall(value, class, property, items) ==
    LET result == resolve(value, class, property, items) IN
    resolution' =
        [call |-> "resolve", value |-> value, class |-> class, property |-> property,
         items |-> items, result |-> result,
         reversed |-> IF result.ok
                      THEN from_variant(result.variant, class, property, items)
                      ELSE NoValue]

\* One call is looked at in each behaviour.
Resolve ==
    /\ ResolverIdle
    /\ \E class \in Classes, property \in Properties, kind \in Kinds :
          \E choice \in Payloads(kind, property), items \in ItemSets(class, property) :
             ResolveCall(Value(kind, Payload(kind, choice)), class, property, items)
    /\ UNCHANGED <<engine, loaded, locking, updater>>

\* ------------------------------------------------ sidecars and project nodes

Services == {"Sample"}
is_service(name) == name \in Services

Insert(properties, property, variant) ==
    [name \in DOMAIN properties \cup {property} |->
        IF name = property THEN variant ELSE properties[name]]

ResolveProperties_AllOrNothing(properties, class) ==
    IF \E property \in DOMAIN properties :
          ~resolve(properties[property], class, property, DefaultItems).ok
    THEN [property \in {} |-> NoVariant]
    ELSE [property \in DOMAIN properties |->
            resolve(properties[property], class, property, DefaultItems).variant]

\* The loop over the properties: what resolves is inserted, what fails is
\* logged.
ResolveProperties(properties, class) ==
    LET resolved == {property \in DOMAIN properties :
                        resolve(properties[property], class, property, DefaultItems).ok}
    IN [property \in resolved |->
            resolve(properties[property], class, property, DefaultItems).variant]

ResolveAttributes(properties, attributes, class) ==
    IF attributes.kind # "None" /\ resolve(attributes, class, "Attributes", DefaultItems).ok
    THEN Insert(properties, "Attributes",
                resolve(attributes, class, "Attributes", DefaultItems).variant)
    ELSE properties

InsertTags(properties, tags) ==
    IF tags # <<>> THEN Insert(properties, "Tags", Variant("Tags", tags)) ELSE properties

NoProperties == [property \in {} |-> NoVariant]
DataSnapshotDefault ==
    [ok |-> TRUE, class |-> "", properties |-> NoProperties, keep_unknowns |-> "none",
     original_name |-> ""]
ReadFailed == [DataSnapshotDefault EXCEPT !.ok = FALSE]

\* read_data of a sidecar that is neither one of a service nor in the
\* folder of a service only when name and parent_name say so.
read_data(file, class, name, parent_name) ==
    IF file.text = "missing" \/ file.text = "malformed" THEN ReadFailed
    ELSE IF file.text = "empty" THEN DataSnapshotDefault
    ELSE LET data == file.data
             resolved_class ==
                 IF class # "" THEN class
                 ELSE IF data.class_name # "" THEN data.class_name
                 ELSE IF is_service(name) THEN name
                 ELSE IF is_service(parent_name) THEN parent_name
                 ELSE "Folder"
         IN [ok |-> TRUE, class |-> data.class_name,
             properties |->
                 InsertTags(ResolveAttributes(ResolveProperties(data.properties, resolved_class),
                                              data.attributes, resolved_class),
                            data.tags),
             keep_unknowns |-> data.keep_unknowns,
             original_name |-> data.original_name]

\* new_snapshot_node up to the snapshot of the node itself, for a node
\* without $path or with both $className and $path.
new_snapshot_node(name, node) ==
    IF node.class_name # "" /\ node.path THEN ReadFailed
    ELSE LET class == IF node.class_name # "" THEN node.class_name
                      ELSE IF is_service(name) THEN name
                      ELSE "Folder"
         IN [ok |-> TRUE, class |-> class,
             properties |->
                 InsertTags(ResolveAttributes(ResolveProperties(node.properties, class),
                                              node.attributes, class),
                            node.tags),
             keep_unknowns |-> IF node.keep_unknowns = "none" THEN is_service(class)
                               ELSE node.keep_unknowns = "true",
             original_name |-> ""]

\* The entries a sidecar or a node may hold: some resolve, some do not.
Entries ==
    <<<<"Bool", Value("Bool", TRUE)>>,
      <<"Float32", Value("String", "x")>>,
      <<"Material", Value("String", "plastic")>>,
      <<"Axes", Value("StringArray", <<"X", "x">>)>>,
      <<"Attributes", Value("Object", Objects[1])>>,
      <<"Tags", Value("StringArray", <<"a">>)>>,
      <<"Missing", Value("Bool", TRUE)>>,
      <<"Vector3", FullyQualified(Variant("Vector3", <<0, Tick, 0>>))>>>>
PropertiesFrom(chosen) ==
    [property \in {Entries[i][1] : i \in chosen} |->
        Entries[CHOOSE i \in chosen : Entries[i][1] = property][2]]
AttributeChoices == <<NoValue, Value("Object", Objects[1]), Value("Object", Objects[2])>>
Datas ==
    [class_name : {"", "Sample"}, chosen : SUBSET (1..Len(Entries)),
     attributes : 1..Len(AttributeChoices), tags : {<<>>, <<"t">>}]
DataOf(d) ==
    [class_name |-> d.class_name, properties |-> PropertiesFrom(d.chosen),
     attributes |-> AttributeChoices[d.attributes], tags |-> d.tags,
     keep_unknowns |-> "none", original_name |-> "", path |-> FALSE]

ReadData ==
    /\ ResolverIdle
    /\ \E text \in {"missing", "malformed", "empty", "json"}, class \in {"", "Sample"},
          name \in {"Sample", "init"}, d \in Datas :
          /\ text # "json" => d = CHOOSE first \in Datas : TRUE
          /\ loaded' = [call |-> "read_data", text |-> text, class |-> class, name |-> name,
                        data |-> DataOf(d),
                        result |-> read_data([text |-> text, data |-> DataOf(d)], class,
                                             name, "src")]
    /\ UNCHANGED <<engine, resolution, locking, updater>>

NewSnapshotNode ==
    /\ ResolverIdle
    /\ \E name \in {"Sample", "Thing"}, path \in BOOLEAN, d \in Datas :
          /\ path => d.class_name # ""
          /\ loaded' = [call |-> "new_snapshot_node", text |-> "json", class |-> "",
                        name |-> name, data |-> [DataOf(d) EXCEPT !.path = path],
                        result |-> new_snapshot_node(name, [DataOf(d) EXCEPT !.path = path])]
    /\ UNCHANGED <<engine, resolution, locking, updater>>

\* The syncback engine at rest.
EngineIdle ==
    /\ disk = InitDisk(FALSE, FALSE)
    /\ metas = InitMetas(FALSE, FALSE)
    /\ tree = InitTree(FALSE)
    /\ project = InitProject
    /\ uuid = 1
    /\ config = [rename_instances |-> FALSE]
    /\ run = "wide"
    /\ ops = 0
    /\ aborted = FALSE
    /\ last = NoCall
    /\ prev = World
    /\ origin = NoOrigin
    /\ repeated = FALSE

\* ------------------------------------------------- resolution: documents

\* A value of a document: its JSON type and what it holds. An array is one
\* of strings, of numbers or of arrays ("empty" when it has no element).
JsonValue(type, val) == [type |-> type, val |-> val]

\* serialize_number: the truncated number (written as an integer when it
\* has no fraction, which reads back as the same number).
serialize_number(number) == JsonValue("number", truncate_number(number))

\* serialize_array: the sequence of the truncated numbers.
serialize_array(array) == JsonValue("numbers", Each(array, truncate_number))

\* serialize_vector_array: every number of every inner array is written as
\* an element of the one sequence.
serialize_vector_array(array) ==
    JsonValue("numbers", Each(array[1], truncate_number) \o Each(array[2], truncate_number))

\* The derived Serialize of the untagged AmbiguousValue, for the shapes
\* made of booleans, strings and numbers.
LooseKinds ==
    {"Bool", "String", "StringArray", "Number", "Array2", "Array3", "Array4", "Array12",
     "Array2Array2", "Array3Array2"}
serialize(value) ==
    CASE value.kind = "Bool" -> JsonValue("bool", value.val)
      [] value.kind = "String" -> JsonValue("string", value.val)
      [] value.kind = "StringArray" ->
            JsonValue(IF Len(value.val) = 0 THEN "empty" ELSE "strings", value.val)
      [] value.kind = "Number" -> serialize_number(value.val)
      [] value.kind \in {"Array2", "Array3", "Array4", "Array12"} -> serialize_array(value.val)
      [] value.kind \in {"Array2Array2", "Array3Array2"} -> serialize_vector_array(value.val)

\* The derived Deserialize: the first variant, in the order of the enum,
\* that the value fits; none for a value that fits no variant.
deserialize(json) ==
    CASE json.type = "bool" -> Value("Bool", json.val)
      [] json.type = "string" -> Value("String", json.val)
      [] json.type \in {"strings", "empty"} -> Value("StringArray", json.val)
      [] json.type = "number" -> Value("Number", json.val)
      [] json.type = "numbers" ->
            CASE Len(json.val) = 2 -> Value("Array2", json.val)
              [] Len(json.val) = 3 -> Value("Array3", json.val)
              [] Len(json.val) = 4 -> Value("Array4", json.val)
              [] Len(json.val) = 12 -> Value("Array12", json.val)
              [] OTHER -> NoValue
      [] json.type = "arrays" ->
            CASE Len(json.val) = 2 /\ Len(json.val[1]) = 2 /\ Len(json.val[2]) = 2 ->
                    Value("Array2Array2", json.val)
              [] Len(json.val) = 2 /\ Len(json.val[1]) = 3 /\ Len(json.val[2]) = 3 ->
                    Value("Array3Array2", json.val)
              [] OTHER -> NoValue
      [] OTHER -> NoValue

\* A property of a document that is loaded, saved and loaded again.
ReloadCall(value, class, property, items) ==
    LET json == serialize(value)
        read == deserialize(json)
    IN resolution' =
        [call |-> "reload", value |-> value, class |-> class, property |-> property,
         items |-> items, result |-> resolve(value, class, property, items),
         json |-> json, read |-> read,
         again |-> IF read = NoValue THEN Failed("data did not match any variant")
                   ELSE resolve(read, class, property, items)]

Reload ==
    /\ ResolverIdle
    /\ \E property \in Properties, kind \in LooseKinds :
          \E choice \in Payloads(kind, property) :
             ReloadCall(Value(kind, choice), "Sample", property, DefaultItems)
    /\ UNCHANGED <<engine, loaded, locking, updater>>


\* ------------------------------------------------ resolution: typed values

\* The type a property is declared with ("" when it is not declared).
DeclaredType(class, property, items) ==
    LET descriptor == find_descriptor(class, property, items)
    IN IF descriptor.type \in {"Enum", "UnknownEnum"} THEN "Enum" ELSE descriptor.variant

\* The types from_variant has an arm for.
Loose ==
    {"Enum", "Bool", "Float32", "Float64", "Int32", "Int64", "String", "Tags", "Content",
     "Vector2", "Vector3", "Color3", "CFrame", "Attributes", "Font", "MaterialColors"}

\* What the values of the inputs resolve to for a property of the type.
ResolvedFor(type) ==
    UNION {{resolve(Value(kind, Payload(kind, choice)), "Sample", type, DefaultItems).variant.val :
              choice \in {c \in Payloads(kind, type) :
                            resolve(Value(kind, Payload(kind, c)), "Sample", type,
                                    DefaultItems).ok}} :
           kind \in Kinds}

\* Typed values of the type; an i64 beyond 2^53 is chosen by Offsets.
Offsets == 0 .. MaxLen
Typed(type) ==
    CASE type = "Enum" -> {ItemId(name) : name \in ItemPool} \cup {0}
      [] type = "Bool" -> BOOLEAN
      [] type = "Float32" -> {as_f32(number) : number \in Numbers}
      [] type = "Float64" -> Numbers
      [] type \in {"Int32", "Int64"} -> {Units(as_int(number)) : number \in Numbers} \cup {0 - 1}
      [] type \in {"String", "SharedString"} -> Strings
      [] type = "Tags" -> StringArrays("Tags")
      [] type = "Content" -> {[uri |-> string] : string \in Strings}
      [] type = "Vector2" -> {F32s(array) : array \in [1..2 -> Components]}
      [] type \in {"Vector3", "Color3"} -> {F32s(array) : array \in [1..3 -> Components]}
      [] type = "Ref" -> {0}
      [] OTHER -> ResolvedFor(type)

\* A typed value is written with from_variant and read with resolve.
ReverseCall(variant, class, property, items) ==
    LET reversed == from_variant(variant, class, property, items) IN
    resolution' =
        [call |-> "from_variant", variant |-> variant, class |-> class,
         property |-> property, items |-> items, reversed |-> reversed,
         result |-> resolve(reversed, class, property, items)]

\* A value of the type the property is declared with; a value of a type
\* without a loose shape also for other properties and classes.
Reverse ==
    /\ ResolverIdle
    /\ \/ \E class \in {"Sample", "Folder"}, property \in Properties :
             \E items \in ItemSets(class, property) :
                /\ DeclaredType(class, property, items) # ""
                /\ \E val \in Typed(DeclaredType(class, property, items)) :
                      ReverseCall(Variant(DeclaredType(class, property, items), val),
                                  class, property, items)
       \/ \E above \in Offsets :
             ReverseCall(Variant("Int64", Wide(above)), "Sample", "Int64", DefaultItems)
       \/ \E type \in (ValueTypes \ Loose) :
             \E class \in {"Sample", "Nothing"}, property \in {"String", "Missing"} :
                \E val \in Typed(type) :
                   ReverseCall(Variant(type, val), class, property, DefaultItems)
    /\ UNCHANGED <<engine, loaded, locking, updater>>

ResolveInit == EngineIdle /\ ResolverIdle /\ LockingIdle /\ UpdaterIdle
ResolveNext == Resolve \/ ReadData \/ NewSnapshotNode \/ Reload \/ Reverse
ResolveSpec == ResolveInit /\ [][ResolveNext]_vars

\* ------------------------------------------------------ resolution: claims

\* The value with every number as truncate_number writes it, in the shape
\* of the value.
Truncated(kind, val) ==
    CASE kind = "Number" -> truncate_number(val)
      [] kind \in {"Array2", "Array3", "Array4", "Array12"} -> Each(val, truncate_number)
      [] kind \in {"Array2Array2", "Array3Array2"} ->
            <<Each(val[1], truncate_number), Each(val[2], truncate_number)>>
      [] OTHER -> val

ResolvedValue == resolution.call = "resolve" /\ resolution.result.ok

\* C24 (as stated): a value that resolves for a property comes back from
\* from_variant as an ambiguous value of the same shape, with the same
\* components up to the truncation to six decimals.
C24_RoundTrip ==
    ResolvedValue
    => /\ resolution.reversed.form = "Ambiguous"
       /\ resolution.reversed.kind = resolution.value.kind
       /\ Truncated(resolution.reversed.kind, resolution.reversed.val)
            = Truncated(resolution.value.kind, resolution.value.val)

\* The types from_variant gives a loose shape of their own, and those among
\* them that hold f32 numbers.
Exact == {"Bool", "String", "SharedString", "Content", "Tags", "Float64", "Font",
          "MaterialColors"}
Narrowed == {"Float32", "Vector2", "Vector3", "Color3", "CFrame", "OptionalCFrame"}
Whole == {"Int32", "Int64"}
AsF32(kind, val) == IF kind = "Number" THEN as_f32(val) ELSE F32s(val)
AsWhole(val) == as_int(val)

ResolvedType ==
    LET descriptor == find_descriptor(resolution.class, resolution.property, resolution.items)
    IN IF descriptor.type = "Enum" THEN "Enum" ELSE descriptor.variant

SameShape ==
    /\ resolution.reversed.form = "Ambiguous"
    /\ resolution.reversed.kind = resolution.value.kind

\* C24 (amended): what from_variant makes of a resolved value resolves again
\* to the same typed value. It is an ambiguous value of the shape of v with
\* the components of v for booleans, strings, enum members, tags, f64
\* numbers, fonts, material colours and attributes given as such; for f32
\* numbers and vectors with the components of v rounded to f32, for i32 and
\* i64 with the integer part of v; a generic object comes back as
\* attributes, and every other type comes back fully qualified.
C24_RoundTripTyped ==
    ResolvedValue
    => LET value == resolution.value
           reversed == resolution.reversed
           type == ResolvedType
       IN /\ resolve(reversed, resolution.class, resolution.property, resolution.items)
                = resolution.result
          /\ CASE type \in Exact \cup {"Enum"} -> SameShape /\ reversed.val = value.val
               [] type \in Narrowed -> SameShape /\ reversed.val = AsF32(value.kind, value.val)
               [] type \in Whole -> SameShape /\ reversed.val = AsWhole(value.val)
               [] type = "Attributes" ->
                     /\ reversed.form = "Ambiguous" /\ reversed.kind = "Attributes"
                     /\ value.kind = "Attributes" => reversed.val = value.val
               [] OTHER -> reversed.form = "FullyQualified"

\* The array 1.5, 0, -1.5 has been resolved for a Vector3 property and has
\* come back as the same array of three numbers.
C24_Witness ==
    /\ ResolvedValue
    /\ resolution.property = "Vector3"
    /\ resolution.value.val = <<3 * (Tick \div 2), 0, -3 * (Tick \div 2)>>
    /\ resolution.reversed = Value("Array3", resolution.value.val)
EnumResolved ==
    /\ resolution.call = "resolve"
    /\ find_descriptor(resolution.class, resolution.property, resolution.items).type = "Enum"

\* The names an error message names: those before "or" and the one after it.
Named(examples) ==
    examples.listed \o (IF examples.last # "" THEN <<examples.last>> ELSE <<>>)
Position(name) == CHOOSE i \in 1..Len(ItemNames) : ItemNames[i] = name

\* C25: a value resolves for an enum property exactly when it is a string
\* naming a member of the enum. The error for any other value names members
\* in sorted order, at most five of them; all n of them when n <= 5, and
\* five of them with "n - 5 more" otherwise, so that the names and the
\* remainder add up to n.
C25_EnumMembersOnly ==
    EnumResolved
    => LET n == Cardinality(resolution.items)
           result == resolution.result
           named == Named(result.examples)
       IN /\ result.ok <=> /\ resolution.value.kind = "String"
                           /\ resolution.value.val \in resolution.items
          /\ result.ok => result.variant = Variant("Enum", ItemId(resolution.value.val))
          /\ ~result.ok =>
                /\ result.error = "Invalid value"
                /\ \A i \in 1..Len(named) : named[i] \in resolution.items
                /\ \A i, j \in 1..Len(named) : i < j => Position(named[i]) < Position(named[j])
                /\ Len(named) <= 5
                /\ n > 5 => Len(named) = 5 /\ result.examples.more = n - 5
                /\ Len(named) + result.examples.more = n

\* A value that is no member of an enum of seven members has been refused:
\* five names and "2 more".
C25_Witness ==
    /\ EnumResolved
    /\ ~resolution.result.ok
    /\ Cardinality(resolution.items) = 7
    /\ Len(resolution.result.examples.listed) = 5
    /\ resolution.result.examples.more = 2

FlagsResolved ==
    /\ resolution.call = "resolve"
    /\ resolution.class = "Sample"
    /\ resolution.property \in {"Axes", "Faces"}
    /\ resolution.value.kind = "StringArray"

Range(seq) == {seq[i] : i \in 1..Len(seq)}
RECURSIVE Union(_, _)
Union(type, names) ==
    IF names = {} THEN 0
    ELSE LET name == CHOOSE name \in names : TRUE
         IN FlagBit(type, name) + Union(type, names \ {name})

\* C26: a string array resolves for an axis set or a face set to the union
\* of the flags it names, whatever their order and however often they are
\* repeated; with a name that is no flag of the set the resolution fails
\* and yields no flags at all.
C26_FlagsUnion ==
    FlagsResolved
    => LET type == resolution.property
           names == Range(resolution.value.val)
       IN IF names \subseteq (IF type = "Axes" THEN AxisNames ELSE FaceNames)
          THEN /\ resolution.result.ok
               /\ resolution.result.variant = Variant(type, Union(type, names))
          ELSE /\ ~resolution.result.ok
               /\ resolution.result.variant = NoVariant

\* Z, X, Z has been resolved for an axis set to the flags of X and Z.
C26_Witness ==
    /\ FlagsResolved
    /\ resolution.value.val = <<"Z", "X", "Z">>
    /\ resolution.result.ok
    /\ resolution.result.variant = Variant("Axes", 5)

Loaded ==
    /\ loaded.call \in {"read_data", "new_snapshot_node"}
    /\ loaded.text = "json"
    /\ ~(loaded.data.class_name # "" /\ loaded.data.path)

\* The class the properties are resolved for.
LoadedClass ==
    IF loaded.class # "" THEN loaded.class
    ELSE IF loaded.data.class_name # "" THEN loaded.data.class_name
    ELSE IF is_service(loaded.name) THEN loaded.name
    ELSE "Folder"

Resolves(value, property) == resolve(value, LoadedClass, property, DefaultItems).ok
ResolvesTo(value, property) == resolve(value, LoadedClass, property, DefaultItems).variant

\* C27: reading a sidecar or a project node never fails because of a
\* property: the properties read are exactly those that resolve (the tags,
\* then the attributes, then the entry of the properties taking a name), and
\* what does not resolve is left out.
C27_FailingPropertiesOmitted ==
    Loaded
    => LET data == loaded.data
           read == loaded.result.properties
           attributes == data.attributes.kind # "None" /\ Resolves(data.attributes, "Attributes")
       IN /\ loaded.result.ok
          /\ \A property \in DOMAIN data.properties \cup {"Attributes", "Tags"} :
                IF property = "Tags" /\ data.tags # <<>>
                THEN property \in DOMAIN read /\ read[property] = Variant("Tags", data.tags)
                ELSE IF property = "Attributes" /\ attributes
                THEN /\ property \in DOMAIN read
                     /\ read[property] = ResolvesTo(data.attributes, "Attributes")
                ELSE IF property \in DOMAIN data.properties
                        /\ Resolves(data.properties[property], property)
                THEN /\ property \in DOMAIN read
                     /\ read[property] = ResolvesTo(data.properties[property], property)
                ELSE property \notin DOMAIN read
          /\ DOMAIN read \subseteq DOMAIN data.properties \cup {"Attributes", "Tags"}

\* A sidecar has been read whose property Float32 holds a string and whose
\* attributes hold an array: both are left out, Bool is read.
C27_Witness ==
    /\ Loaded
    /\ loaded.call = "read_data"
    /\ DOMAIN loaded.data.properties = {"Bool", "Float32"}
    /\ loaded.data.attributes = AttributeChoices[3]
    /\ loaded.result.ok
    /\ DOMAIN loaded.result.properties = {"Bool"}

\* ------------------------------------------------------------------ lock!

\* try_lock: the guard, or an error for a mutex that is held; a mutex of
\* std::sync also gives an error once a holder has panicked, one of
\* tokio::sync knows no poison.
try_lock_PoisonIgnored(mutex) == IF mutex.holder # "none" THEN "WouldBlock" ELSE "Ok"

try_lock(mutex) ==
    IF mutex.holder # "none" THEN "WouldBlock"
    ELSE IF mutex.poisoned THEN "Poisoned"
    ELSE "Ok"

\* A guard dropped while its thread panics poisons a mutex of std::sync.
DropGuards(thread, panicking) ==
    [m \in Mutexes |->
        IF m \in threads[thread].guards
        THEN [mutexes[m] EXCEPT !.holder = "none",
                                !.poisoned = @ \/ (panicking /\ mutexes[m].kind = "std")]
        ELSE mutexes[m]]

\* lock!(mutex): try_lock().unwrap()
Lock ==
    \E thread \in Threads, m \in Mutexes :
       /\ threads[thread].state = "running"
       /\ IF try_lock(mutexes[m]) = "Ok"
          THEN /\ mutexes' = [mutexes EXCEPT ![m].holder = thread]
               /\ threads' = [threads EXCEPT ![thread].guards = @ \cup {m}]
          ELSE /\ mutexes' = DropGuards(thread, TRUE)
               /\ threads' = [threads EXCEPT ![thread] = [state |-> "panicked", guards |-> {}]]
       /\ attempt' = [thread |-> thread, mutex |-> m, before |-> mutexes[m],
                      outcome |-> IF try_lock(mutexes[m]) = "Ok" THEN "acquired"
                                  ELSE "panicked"]
       /\ UNCHANGED <<engine, resolver, updater>>

\* The guard goes out of scope.
Unlock ==
    \E thread \in Threads, m \in Mutexes :
       /\ threads[thread].state = "running"
       /\ m \in threads[thread].guards
       /\ mutexes' = [mutexes EXCEPT ![m].holder = "none"]
       /\ threads' = [threads EXCEPT ![thread].guards = @ \ {m}]
       /\ attempt' = NoAttempt
       /\ UNCHANGED <<engine, resolver, updater>>

LockInit ==
    /\ EngineIdle /\ ResolverIdle /\ UpdaterIdle
    /\ mutexes \in [Mutexes -> {Unlocked("std"), Unlocked("tokio")}]
    /\ threads = [t \in Threads |-> Running]
    /\ attempt = NoAttempt
LockNext == Lock \/ Unlock
LockSpec == LockInit /\ [][LockNext]_vars

Attempted == attempt.thread # "none"

CollapseChecked ==
    /\ RemovalReached
    /\ prev.metas[last.id].source.kind = "Path"
    /\ prev.tree[last.id].parent \in DOMAIN prev.tree

SiblingsBefore == Children(prev.tree, prev.tree[last.id].parent)

\* The parent is a folder with a main file inside it.
ParentIsFolder ==
    LET source == prev.metas[RemovedParent].source
    IN /\ source.kind = "Path"
       /\ <<"Folder", source.path>> \in source.relevant
       /\ IsDir(prev.disk, source.path)
       /\ HasEntry(source, "File")
       /\ RuleMatchesChild(ScriptRule, GetEntry(source, "File"))

RECURSIVE SnapshotEdges(_)
\* The pairs <<child, parent>> of the snapshot's descendants.
SnapshotEdges(snapshot) ==
    {<<snapshot.children[i].id, snapshot.id>> : i \in DOMAIN snapshot.children} \cup
    UNION {SnapshotEdges(snapshot.children[i]) : i \in DOMAIN snapshot.children}

AddedSubtree ==
    /\ last.op = "addition" /\ last.res = "ok"
    /\ last.parent \in DOMAIN prev.tree
    /\ ~matches_name(last.name) /\ ~matches_class(last.class)
    /\ prev.metas[last.parent].source.kind \in {"Path", "Project"}
    /\ last.id \in DOMAIN tree

\* C30: after a successful apply_addition that wrote the instance the added
\* subtree has in the Tree the structure it has in the snapshot: the
\* top-level instance is a child of added.parent and every descendant that
\* was inserted is a child of the instance that is its parent in the
\* snapshot, under Path and Project parents alike.
C30_TreeMatchesSnapshot ==
    AddedSubtree
    => /\ tree[last.id].parent = last.parent
       /\ \A edge \in SnapshotEdges(last.snapshot) :
             edge[1] \in DOMAIN tree => tree[edge[1]].parent = edge[2]

\* ------------------------------------------------- renames and descendants

\* The last call was a successful update that changed the name of an
\* instance which has descendants in the Tree.
RenamedWithDescendants ==
    /\ last.op = "update" /\ last.res = "ok" /\ last.name # NoName
    /\ last.id \in DOMAIN tree /\ last.id \in DOMAIN prev.tree
    /\ tree[last.id].name # prev.tree[last.id].name
    /\ Descendants(tree, last.id) # {}

\* The Source of the instance designates an existing location: the path and
\* the relevant entries of a Path source exist on disk, the node_path of a
\* Project source finds a node of the saved document.
Designates(id) ==
    CASE metas[id].source.kind = "Path" ->
            /\ Exists(disk, metas[id].source.path)
            /\ \A q \in RelevantPaths(metas[id].source) : Exists(disk, q)
      [] metas[id].source.kind = "Project" -> metas[id].source.nodePath \in DOMAIN project
      [] OTHER -> TRUE

\* C31: after a successful apply_update that renames an instance which has
\* descendants in the Tree, the Source of every descendant still designates
\* an existing location (paths and relevant entries on disk, node_path in the
\* saved document).
C31_DescendantsFollowRename ==
    RenamedWithDescendants => \A id \in Descendants(tree, last.id) : Designates(id)

\* ------------------------------------------- one node for every instance

ProjectSourced(ms) == {id \in DOMAIN ms : ms[id].source.kind = "Project"}

\* No two instances share a node_path and every Project-sourced instance
\* has a node of the document at its node_path.
OwnNodes(ms, doc) ==
    /\ \A a, b \in ProjectSourced(ms) :
          ms[a].source.nodePath = ms[b].source.nodePath => a = b
    /\ \A a \in ProjectSourced(ms) : ms[a].source.nodePath \in DOMAIN doc

\* The last call was a successful addition under, or update of, a
\* Project-sourced instance.
ProjectCall ==
    /\ last.res = "ok"
    /\ \/ /\ last.op = "addition" /\ last.parent \in ProjectSourced(prev.metas)
          /\ last.id \in DOMAIN tree
       \/ last.op = "update" /\ last.id \in ProjectSourced(prev.metas)

\* C32: a successful apply_addition or apply_update on a Project-sourced
\* instance, made when no two instances share a node_path and every
\* Project-sourced instance has its node in the saved document, leaves it
\* so: no sibling node is overwritten or dropped.
C32_UniqueNodePerInstance ==
    (ProjectCall /\ OwnNodes(prev.metas, prev.project)) => OwnNodes(metas, project)

\* ------------------------------------------------ patching a sidecar

\* The sidecars write_original_name may find at the data path, and the
\* original names verify_name may have recorded in the Meta.
SidecarNames == {NoName, N("A"), N("U?")}
Sidecars ==
    {Data(class, props, attributes, tags, keep, name) :
        class \in {NoClass, "Part"}, props \in {{}, {"Size"}},
        attributes \in {{}, {"Kind"}}, tags \in {{}, {"T"}},
        keep \in BOOLEAN, name \in SidecarNames} \cup {EmptyData}

\* write_original_name on the data path of the leaf A, with or without a
\* sidecar there.
WriteOriginalName ==
    /\ ResolverIdle
    /\ \E present \in BOOLEAN, sidecar \in Sidecars, name \in SidecarNames :
          LET d == IF present THEN (DataA :> sidecar) ELSE <<>>
              meta == [MetaNew EXCEPT !.originalName = name]
          IN /\ ~present => sidecar = EmptyData
             /\ loaded' = [call |-> "write_original_name", path |-> DataA,
                           meta |-> meta, before |-> d,
                           after |-> write_original_name(DataA, meta, d)]
    /\ UNCHANGED <<engine, resolution, locking, updater>>

\* ----------------------------------------------------- snapshot of a DOM

\* A DOM of three instances: the root 1 with the children 2 and 3 in either
\* order, or with the child 2 and the grandchild 3.
DomIds == {1, 2, 3}
Shapes ==
    {<<<<2, 3>>, <<>>, <<>>>>, <<<<3, 2>>, <<>>, <<>>>>, <<<<2>>, <<3>>, <<>>>>}
DomInstance(name, class, properties, children) ==
    [name |-> name, class |-> class, properties |-> properties, children |-> children]
Doms ==
    {[id \in DomIds |-> DomInstance(names[id], classes[id], properties[id], shape[id])] :
        names \in [DomIds -> {"A", "B"}], classes \in [DomIds -> {"Folder", "MeshPart"}],
        properties \in [DomIds -> {{}, {"MeshId"}}], shape \in Shapes}

\* save_mesh: the mesh source made of the mesh properties, none without them.
NoMesh == ""
save_mesh(properties) == IF "MeshId" \in properties THEN "mesh" ELSE NoMesh

\* Snapshot::new() with the given fields; its meta is Meta::new().
DomSnapshot(name, class, properties, children) ==
    [name |-> name, class |-> class, properties |-> properties,
     meta |-> [mesh_source |-> NoMesh], children |-> children]

\* walk: the local meta that takes the mesh source is not handed to the
\* snapshot.
RECURSIVE walk(_, _)
walk(id, raw_dom) ==
    LET instance == raw_dom[id]
        children == [i \in 1..Len(instance.children) |-> walk(instance.children[i], raw_dom)]
    IN DomSnapshot(instance.name, instance.class, instance.properties, children)

snapshot_from_dom(dom, id) == walk(id, dom)

SnapshotFromDom ==
    /\ ResolverIdle
    /\ \E dom \in Doms, id \in DomIds :
          loaded' = [call |-> "snapshot_from_dom", dom |-> dom, id |-> id,
                     snapshot |-> snapshot_from_dom(dom, id)]
    /\ UNCHANGED <<engine, resolution, locking, updater>>

DataInit == EngineIdle /\ ResolverIdle /\ LockingIdle /\ UpdaterIdle
DataNext == WriteOriginalName \/ SnapshotFromDom
DataSpec == DataInit /\ [][DataNext]_vars

\* An existing sidecar with content has been patched with a new name.
Patched ==
    /\ loaded.call = "write_original_name"
    /\ Exists(loaded.before, loaded.path)
    /\ loaded.before[loaded.path].kind = "data"
    /\ loaded.before[loaded.path].originalName # loaded.meta.originalName

\* C33: patching the original name of an existing sidecar leaves its
\* className, properties, attributes, tags and keepUnknowns as they were,
\* and removes the sidecar only when all of them and the new originalName
\* are default.
C33_OnlyOriginalNameChanges ==
    Patched
    => LET old == loaded.before[loaded.path]
       IN IF Exists(loaded.after, loaded.path)
          THEN loaded.after[loaded.path]
                  = [old EXCEPT !.originalName = loaded.meta.originalName]
          ELSE /\ old.className = NoClass /\ old.props = {}
               /\ old.attributes = {} /\ old.tags = {}
               /\ ~old.keepUnknowns /\ loaded.meta.originalName = NoName

\* ------------------------------------------------- removals that fail

RemovalFailed == last.op = "removal" /\ last.res = "err"

AbortedUpdate ==
    /\ last.op = "update" /\ last.res = "panic"
    /\ last.class # NoClass \/ last.hasMeta
    /\ last.name # NoName \/ last.hasProps
    /\ prev.metas[last.id].source.kind \in {"Path", "Project"}

\* The same update without the class and the meta field.
PlainUpdate == Upd(last.id, last.name, NoClass, last.hasProps, last.props, FALSE)

DocumentError ==
    /\ last.res = "err"
    /\ \/ last.op = "addition" /\ last.parent \in ProjectSourced(prev.metas)
             /\ prev.metas[last.parent].source.node.path = NoPath
       \/ last.op = "update" /\ last.id \in ProjectSourced(prev.metas)
             /\ prev.metas[last.id].source.node.path = NoPath

\* C36: when an apply_addition or apply_update on a Project-sourced target
\* returns an error because the document could not be loaded or saved or a
\* node was not found, the call has not modified the Tree: no instance was
\* inserted, no name, properties or Meta changed.
C36_DocumentErrorKeepsTree ==
    DocumentError => tree = prev.tree /\ metas = prev.metas

\* ------------------------------------------------------ documents: claims

Reloaded == resolution.call = "reload"

\* C37: a value that is serialized and read back is an ambiguous value of
\* the same shape: a flat array of 2, 3, 4 or 12 numbers stays flat and of
\* that length, an array of two arrays of 2 or of 3 numbers stays nested;
\* so a property that resolved before the document was saved resolves to
\* the same typed value (of the numbers as they were written) afterwards.
C37_ReloadKeepsShape ==
    Reloaded
    => LET value == resolution.value
           written == resolve(Value(value.kind, Truncated(value.kind, value.val)),
                              resolution.class, resolution.property, resolution.items)
       IN /\ resolution.read.kind = value.kind
          /\ resolution.again.ok = written.ok
          /\ resolution.again.variant.type = written.variant.type
          /\ resolution.again.variant = written.variant

Reversed == resolution.call = "from_variant"

\* C38: a typed value v of a property declared with the type of v, written
\* with from_variant and read with resolve for the same class and property,
\* is v again; a value of a type without a loose shape stays fully
\* qualified and is read unchanged for any class and property.
C38_WriteThenRead ==
    Reversed
    => /\ resolution.result.ok
       /\ resolution.result.variant.type = resolution.variant.type
       /\ resolution.result.variant = resolution.variant
       /\ resolution.variant.type \notin Loose => resolution.reversed.form = "FullyQualified"

\* ------------------------------------------------------ snapshot: claims

\* The snapshot is that of the instance: name, class, properties, the
\* children one for one in the order of the DOM; meshes tells whether the
\* mesh source of a MeshPart is looked at as well.
RECURSIVE Mirrors(_, _, _, _)
Mirrors(snapshot, dom, id, meshes) ==
    /\ snapshot.name = dom[id].name
    /\ snapshot.class = dom[id].class
    /\ snapshot.properties = dom[id].properties
    /\ (meshes /\ dom[id].class = "MeshPart")
          => snapshot.meta.mesh_source = save_mesh(dom[id].properties)
    /\ Len(snapshot.children) = Len(dom[id].children)
    /\ \A i \in 1..Len(snapshot.children) :
          Mirrors(snapshot.children[i], dom, dom[id].children[i], meshes)

FromDom == loaded.call = "snapshot_from_dom"

\* C39: the snapshot made of a DOM mirrors the subtree of the given
\* instance: every instance once, with its name, class and properties, the
\* children in the order of the DOM, and the meta of a MeshPart holds the
\* mesh source made of its properties.
C39_SnapshotMirrorsDom == FromDom => Mirrors(loaded.snapshot, loaded.dom, loaded.id, TRUE)

\* The status files a first call can find: none, a new one, one of a check
\* made half an hour ago, one of a check dated half an hour ahead.
Statuses ==
    {UpdateStatus(FALSE, UNIX_EPOCH), UpdateStatus(TRUE, UNIX_EPOCH),
     UpdateStatus(TRUE, Start - one_hour \div 2), UpdateStatus(TRUE, Start + one_hour \div 2)}
Releases == {"error", "same", "newer"}
Steps == {one_hour \div 2 - 1, one_hour \div 2, one_hour}
\* A call is over within the second it is made in.
Durations == {0}

\* The clock goes on between the calls.
Advance ==
    /\ \E step \in Steps :
          /\ updater.clock + step <= Horizon
          /\ updater' = [updater EXCEPT !.clock = @ + step]
    /\ UNCHANGED <<engine, resolver, locking>>

Called(name, auto_update, until, done) ==
    updater' =
        [clock |-> until, status |-> done.status,
         checked |-> IF done.completed THEN until ELSE updater.checked,
         call |-> [name |-> name, auto_update |-> auto_update, at |-> updater.clock,
                   until |-> until, before |-> updater.status,
                   checked |-> updater.checked, done |-> done]]

CheckForUpdates ==
    /\ \E plugin \in BOOLEAN, templates \in BOOLEAN, duration \in Durations,
          release \in Releases, components \in {"err", "none", "updated"} :
          /\ updater.clock + duration <= Horizon
          /\ Called("check_for_updates", FALSE, updater.clock + duration,
                    check_for_updates(plugin, templates, updater.status, updater.clock,
                                      updater.clock + duration, release, components))
    /\ UNCHANGED <<engine, resolver, locking>>

UpdateCli ==
    /\ \E auto_update \in BOOLEAN, release \in Releases, install \in {"Updated", "UpToDate"} :
          Called("update_cli", auto_update, updater.clock,
                 update_cli(auto_update, updater.status, updater.clock, release, install))
    /\ UNCHANGED <<engine, resolver, locking>>

UpdateInit ==
    /\ EngineIdle /\ ResolverIdle /\ LockingIdle
    /\ updater \in {[NoUpdater EXCEPT !.status = status] : status \in Statuses}
UpdateNext == Advance \/ CheckForUpdates \/ UpdateCli
UpdateSpec == UpdateInit /\ [][UpdateNext]_vars

\* ---------------------------------------------------------- updater: claims

Checked == updater.call.name = "check_for_updates"
WithinTheHour ==
    /\ updater.call.before.valid
    /\ updater.call.at >= updater.call.before.last_checked
    /\ updater.call.at - updater.call.before.last_checked < one_hour

\* C40: a check_for_updates made less than one hour after the recorded
\* last_checked looks up no release, updates no component and does not
\* write the status; a check that runs to completion records the time of
\* its end as last_checked, so that two completed checks are at least one
\* hour apart; and an update_cli that is not forced, called by the check
\* or by itself, installs no CLI binary and stops no session.
C40_ChecksAreRateLimited ==
    /\ (Checked /\ WithinTheHour)
          => /\ updater.call.done.lookups = 0
             /\ ~updater.call.done.updated
             /\ updater.call.done.writes = 0
             /\ updater.status = updater.call.before
    /\ (Checked /\ updater.call.done.completed)
          => /\ updater.status.last_checked = updater.call.until
             /\ updater.call.checked >= 0
                   => updater.call.until - updater.call.checked >= one_hour
    /\ (updater.call.name # "none" /\ ~updater.call.auto_update)
          => ~updater.call.done.installed /\ ~updater.call.done.stopped

\* A check has been made within the hour after a completed check, and has
\* been skipped.
C40_Witness ==
    /\ Checked /\ WithinTheHour
    /\ updater.call.checked >= 0
    /\ updater.call.before.last_checked = updater.call.checked
    /\ updater.call.at > updater.call.checked
    /\ updater.call.done.lookups = 0

====
